---- MODULE Spec2Model ----
(***************************************************************************)
(* StreamStudio: the session controller (class StreamStudio) and the       *)
(* subsystems it drives (Recorder, Streamer, Transcript, Chat, AI, UI).    *)
(*                                                                         *)
(* The program is single-threaded and event driven.  One action of the     *)
(* model is one task of the browser's event loop: an event handler run up  *)
(* to the point where it really suspends (getUserMedia/getDisplayMedia,    *)
(* the simulated connection delays), or the continuation of a suspended    *)
(* handler.  An await on a promise that is already settled (Recorder.start,*)
(* Recorder.stop, an early throw of Streamer.start/stop) resumes in the    *)
(* same microtask checkpoint, so it does not end the action.               *)
(*                                                                         *)
(* Handlers are written as operators on a "world" record w that holds one  *)
(* field per object (w.app is the StreamStudio instance, w.recorder the    *)
(* Recorder, ...) plus w.out, the trace of what the running handler has    *)
(* shown to the user and which subsystem methods it has called.            *)
(***************************************************************************)
EXTENDS Integers, Sequences, FiniteSets, TLC

VARIABLES
  app,         \* StreamStudio fields
  recorder,    \* Recorder fields
  streamer,    \* Streamer fields
  transcript,  \* Transcript fields
  chat,        \* Chat fields
  ai,          \* AI fields
  dom,         \* the parts of the document the handlers read and write
  pending,     \* handlers suspended at an await, and the streams acquired
  last,        \* what the most recent handler did (its name and its trace)
  hist         \* history variables for the claims about sequences of calls

vars == <<app, recorder, streamer, transcript, chat, ai, dom, pending, last, hist>>

----------------------------------------------------------------------------
(* Bounds *)

MaxSources  == 2   \* streams the capture devices hand out in one behaviour
MaxInFlight == 2   \* suspended handlers of one kind at a time
MaxMessages == 1   \* chat messages sent in one behaviour
MaxCommands == 1   \* voice commands logged in one behaviour
MaxReplies  == 1   \* simulated viewer replies in one behaviour
MaxChatBurst    == 102  \* chat messages sent when the chat log is filled
MaxCommandBurst == 52   \* voice commands logged when the command log is filled
MaxSegments     == 101  \* segments committed to one transcript
MaxOrderedCommands == 2  \* voice commands logged when their order is observed
MaxChunks == 2   \* timeslice chunks one MediaRecorder delivers
MaxViewers == 6  \* viewers the simulation counts up to
MaxHeard == 3    \* segments held when single results are observed
MaxClock == 2    \* the times an export is made at
MaxExported == 2 \* segments held when exports are observed

----------------------------------------------------------------------------
(* Values *)

NoSource == 0

\* Chat.maxMessages and AI.maxHistorySize
maxMessages == 100
maxHistorySize == 50
NoAuth   == ""
Emails   == {"user@example.com"}
Passwords == {"secret"}
ChatTexts == {"hello", "bye"}
StreamKeys == {"", "live_key"}
Origins  == {"ui", "key", "voice"}

\* Streamer.platforms: every known platform has requiresKey: true
Platforms == {"youtube", "twitch", "facebook", "custom"}
PlatformChoices == {"", "youtube"}

\* outcomes of the browser's MediaRecorder when Recorder.start builds and
\* starts one: it works, the constructor throws (NotSupportedError: the vp8
\* fallback is not checked), or start(1000) throws
MediaRecorderOutcomes == {"ok", "ctorThrows", "startThrows"}

NoMediaRecorder == [stream |-> NoSource, state |-> "none"]

\* the MediaRecorder events the browser still owes: the chunks the current
\* MediaRecorder has delivered (produced), and for every stop() the task that
\* will fire its last dataavailable and its stop event (stops, in the order
\* of the stop() calls; who = "cur" for this.mediaRecorder, "old" for one
\* that a later start() has replaced)
NoCapture == [produced |-> 0, stops |-> <<>>]

\* the zero-argument closures handed to requireAuth
NoAction == [kind |-> "none", arg |-> ""]
DeferredStartRecording == [kind |-> "startRecording", arg |-> ""]
DeferredSendMessage(text) == [kind |-> "sendMessage", arg |-> text]
DeferredEnableAI == [kind |-> "enableAI", arg |-> ""]

\* threw: an exception is on its way out of the running handler
EmptyOut == [notices |-> <<>>, calls |-> <<>>, threw |-> FALSE]

----------------------------------------------------------------------------
(* Trace helpers *)

IsAuthenticated(w) == w.app.auth # NoAuth

\* a notice shown to the user: an alert, a status-bar update, a toast or a modal
Notice(w, kind, text) ==
  [w EXCEPT !.out.notices = Append(@, [kind |-> kind, text |-> text])]

\* a subsystem method was entered; authed is the auth state at that moment
Call(w, fn, ok, arg) ==
  [w EXCEPT !.out.calls =
      Append(@, [fn |-> fn, ok |-> ok, kind |-> "", arg |-> arg, n |-> 0,
                 authed |-> IsAuthenticated(w)])]

\* the same with a number among the arguments
CallN(w, fn, ok, arg, n) ==
  [w EXCEPT !.out.calls =
      Append(@, [fn |-> fn, ok |-> ok, kind |-> "", arg |-> arg, n |-> n,
                 authed |-> IsAuthenticated(w)])]

\* the same for requireAuth and for the invocation of a deferred closure:
\* the entry names the closure
CallAction(w, fn, action) ==
  [w EXCEPT !.out.calls =
      Append(@, [fn |-> fn, ok |-> TRUE, kind |-> action.kind, arg |-> action.arg,
                 n |-> 0, authed |-> IsAuthenticated(w)])]

ActionOf(c) == [kind |-> c.kind, arg |-> c.arg]

Range(s) == {s[i] : i \in 1..Len(s)}

Called(tr, fn) == \E c \in Range(tr.calls) : c.fn = fn
CountCalls(tr, fn) == Cardinality({i \in 1..Len(tr.calls) : tr.calls[i].fn = fn})
Errors(tr) == {i \in 1..Len(tr.notices) : tr.notices[i].kind = "error"}
FailedCall(tr, fn) == \E c \in Range(tr.calls) : c.fn = fn /\ ~c.ok
OkCall(tr, fn) == \E c \in Range(tr.calls) : c.fn = fn /\ c.ok

----------------------------------------------------------------------------
(* Recorder *)

\* Recorder.start without the check for a recording in progress
Recorder_start_noGuard(w, sourceStream, mr) ==
  LET w1 == [w EXCEPT !.recorder.recordedChunks = 0]
      r ==
        IF mr = "ctorThrows" THEN [ok |-> FALSE, w |-> w1]
        ELSE
          LET w2 == [w1 EXCEPT !.recorder.mediaRecorder =
                                 [stream |-> sourceStream, state |-> "inactive"]] IN
          IF mr = "startThrows" THEN [ok |-> FALSE, w |-> w2]
          ELSE [ok |-> TRUE,
                w |-> [w2 EXCEPT !.recorder.mediaRecorder.state = "recording",
                                 !.recorder.isRecording = TRUE]]
  IN [ok |-> r.ok, w |-> Call(r.w, "Recorder.start", r.ok, "")]

\* Recorder.start(sourceStream): returns [ok, w]; ok = FALSE is a throw
Recorder_start(w, sourceStream, mr) ==
  LET r ==
        IF w.recorder.isRecording THEN [ok |-> FALSE, w |-> w]
        ELSE
          LET w1 == [w EXCEPT !.recorder.recordedChunks = 0] IN
          IF mr = "ctorThrows" THEN [ok |-> FALSE, w |-> w1]
          ELSE
            LET w2 == [w1 EXCEPT !.recorder.mediaRecorder =
                                   [stream |-> sourceStream, state |-> "inactive"]] IN
            IF mr = "startThrows" THEN [ok |-> FALSE, w |-> w2]
            ELSE [ok |-> TRUE,
                  w |-> [w2 EXCEPT !.recorder.mediaRecorder.state = "recording",
                                   !.recorder.isRecording = TRUE]]
  IN [ok |-> r.ok, w |-> Call(r.w, "Recorder.start", r.ok, "")]

\* Recorder.stop(): mediaRecorder.stop() on a MediaRecorder that has already
\* gone inactive (its tracks ended) throws InvalidStateError in browsers that
\* follow the older MediaStream Recording drafts and does nothing in the
\* others; stopThrows picks which
Recorder_stop(w, stopThrows) ==
  LET r ==
        IF ~w.recorder.isRecording \/ w.recorder.mediaRecorder = NoMediaRecorder
        THEN [ok |-> FALSE, w |-> w]
        ELSE IF w.recorder.mediaRecorder.state = "inactive" /\ stopThrows
        THEN [ok |-> FALSE, w |-> w]
        ELSE [ok |-> TRUE,
              w |-> [w EXCEPT !.recorder.mediaRecorder.state = "inactive",
                              !.recorder.isRecording = FALSE]]
  IN [ok |-> r.ok, w |-> Call(r.w, "Recorder.stop", r.ok, "")]

\* mediaRecorder.ondataavailable for a chunk that is not empty
Recorder_ondataavailable(w) ==
  [Call(w, "Recorder.ondataavailable", TRUE, "")
     EXCEPT !.recorder.recordedChunks = @ + 1]

\* Recorder.saveRecording: one download made of the whole buffer, which is
\* emptied; nothing when the buffer is empty
Recorder_saveRecording(w) ==
  IF w.recorder.recordedChunks = 0
  THEN Call(w, "Recorder.saveRecording", FALSE, "")
  ELSE [Notice(CallN(w, "Recorder.saveRecording", TRUE, "",
                     w.recorder.recordedChunks), "download", "recording")
          EXCEPT !.recorder.recordedChunks = 0]

\* the task MediaRecorder.stop() queues: the last dataavailable, then
\* onstop, which is saveRecording
Recorder_onstop(w) == Recorder_saveRecording(Recorder_ondataavailable(w))

\* the enabled flags of the audio tracks a capture device hands out with a
\* stream: audio is asked for with every source (audio: true), and a screen
\* capture may still come without an audio track
AudioTracksOf(stream) == IF stream = 1 THEN <<TRUE>> ELSE <<>>

\* Recorder.toggleMute that labels the button from the flag before the flip
Recorder_toggleMute_staleLabel(w) ==
  LET w0 == Call(w, "Recorder.toggleMute", TRUE, "") IN
  IF w0.recorder.stream = NoSource THEN w0
  ELSE
    LET audioTracks == w0.recorder.audioTracks
        isMuted == IF audioTracks = <<>> THEN TRUE ELSE ~audioTracks[1]
    IN [w0 EXCEPT !.recorder.audioTracks =
                     [i \in 1..Len(audioTracks) |-> ~audioTracks[i]],
                  !.dom.muteLabel = IF isMuted THEN "Unmute Audio"
                                               ELSE "Mute Audio"]

\* Recorder.toggleMute: flips the enabled flag of the stream's audio tracks
\* and relabels the mute button from the first track (muted when there is
\* none); nothing at all without a stream
Recorder_toggleMute(w) ==
  LET w0 == Call(w, "Recorder.toggleMute", TRUE, "") IN
  IF w0.recorder.stream = NoSource THEN w0
  ELSE
    LET audioTracks == [i \in 1..Len(w0.recorder.audioTracks) |->
                          ~w0.recorder.audioTracks[i]]
        isMuted == IF audioTracks = <<>> THEN TRUE ELSE ~audioTracks[1]
    IN [w0 EXCEPT !.recorder.audioTracks = audioTracks,
                  !.dom.muteLabel = IF isMuted THEN "Unmute Audio"
                                               ELSE "Mute Audio"]

\* Recorder.takeScreenshot: a download of the current frame, when there is a
\* stream (selectSource has then put a video element in the preview)
Recorder_takeScreenshot(w) ==
  LET w0 == Call(w, "Recorder.takeScreenshot", TRUE, "") IN
  IF w0.recorder.stream = NoSource THEN w0
  ELSE Notice(w0, "download", "screenshot")

----------------------------------------------------------------------------
(* Streamer *)

\* Streamer.start without the check of the stream key
Streamer_start_check_noKey(w, platform) ==
  LET ok == /\ ~w.streamer.isStreaming
            /\ platform \in Platforms
  IN [ok |-> ok, w |-> Call(w, "Streamer.start", ok, platform)]

\* Streamer.start up to "await this.simulateStreamStart": the three guards
Streamer_start_check(w, platform) ==
  LET ok == /\ ~w.streamer.isStreaming
            /\ platform \in Platforms
            /\ w.streamer.settings.streamKey # ""
  IN [ok |-> ok, w |-> Call(w, "Streamer.start", ok, platform)]

\* Streamer.start after the simulated connection delay
Streamer_start_resume(w) ==
  [w EXCEPT !.streamer.isStreaming = TRUE]

\* Streamer.stop with its guard inverted
Streamer_stop_check_inverted(w) ==
  LET ok == ~w.streamer.isStreaming
  IN [ok |-> ok, w |-> Call(w, "Streamer.stop", ok, "")]

\* Streamer.stop up to "await this.simulateStreamStop"
Streamer_stop_check(w) ==
  LET ok == w.streamer.isStreaming
  IN [ok |-> ok, w |-> Call(w, "Streamer.stop", ok, "")]

\* the rest of Streamer.stop without the reset of the viewer count
Streamer_stop_resume_keepViewers(w) ==
  [w EXCEPT !.streamer.isStreaming = FALSE]

\* Streamer.stop after the simulated disconnection delay
Streamer_stop_resume(w) ==
  [w EXCEPT !.streamer.isStreaming = FALSE, !.streamer.viewerCount = 0]

\* Math.floor(Math.random() * 10) - 5
ViewerChanges == (0 - 5)..4

\* the interval callback of Streamer.startViewerCountSimulation
Streamer_viewerCountTick(w, change) ==
  LET w0 == Call(w, "Streamer.viewerCountTick", w.streamer.isStreaming, "") IN
  IF w0.streamer.isStreaming
  THEN [w0 EXCEPT !.streamer.viewerCount =
                     IF @ + change > 0 THEN @ + change ELSE 0]
  ELSE w0

\* Streamer.updateSettings
Streamer_updateSettings(w, streamKey) ==
  [w EXCEPT !.streamer.settings.streamKey = streamKey]

----------------------------------------------------------------------------
(* Transcript *)

\* String.prototype.trim on the texts the recognizers deliver here
Trim(text) ==
  CASE text = " " -> ""
    [] text = " hello world " -> "hello world"
    [] OTHER -> text

\* addTranscriptSegment that leaves the current segment as it is
Transcript_addTranscriptSegment_keepCurrent(w, text) ==
  IF Trim(text) = "" THEN w
  ELSE [w EXCEPT !.transcript.transcript = Append(@, Trim(text))]

\* Transcript.addTranscriptSegment
Transcript_addTranscriptSegment(w, text) ==
  IF Trim(text) = "" THEN w
  ELSE [w EXCEPT !.transcript.transcript = Append(@, Trim(text)),
                 !.transcript.currentSegment = ""]

\* Transcript.handleRecognitionResult: interim and final are the texts the
\* event's results add up to ("" for none); the interim text is on record
\* as the argument of the updateDisplay() that shows it
Transcript_handleRecognitionResult(w, interim, final) ==
  LET w0 == Call(w, "Transcript.handleRecognitionResult", TRUE, final)
      w1 == IF interim # ""
            THEN Call([w0 EXCEPT !.transcript.currentSegment = interim],
                      "Transcript.updateDisplay", TRUE, interim)
            ELSE w0
  IN IF final # "" THEN Transcript_addTranscriptSegment(w1, final) ELSE w1

\* Transcript.start: recognition.start() throws when the recognizer has not
\* yet ended after an earlier stop(); the catch resets isActive
Transcript_start(w) ==
  LET w0 == Call(w, "Transcript.start", TRUE, "") IN
  IF w0.transcript.recognition = "unsupported" THEN w0
  ELSE IF w0.transcript.isActive THEN w0
  ELSE
    LET w1 == [w0 EXCEPT !.transcript.isActive = TRUE,
                         !.transcript.transcript = <<>>,
                         !.transcript.currentSegment = ""] IN
    IF w1.transcript.recognition = "idle"
    THEN [w1 EXCEPT !.transcript.recognition = "running"]
    ELSE [w1 EXCEPT !.transcript.isActive = FALSE]

\* Transcript.stop that does not commit the current segment
Transcript_stop_dropRemainder(w) ==
  LET w0 == Call(w, "Transcript.stop", TRUE, "") IN
  IF ~w0.transcript.isActive THEN w0
  ELSE [w0 EXCEPT !.transcript.isActive = FALSE,
                  !.transcript.recognition =
                     IF @ = "running" THEN "stopping" ELSE @]

\* Transcript.stop
Transcript_stop(w) ==
  LET w0 == Call(w, "Transcript.stop", TRUE, "") IN
  IF ~w0.transcript.isActive THEN w0
  ELSE
    LET w1 == [w0 EXCEPT !.transcript.isActive = FALSE,
                         !.transcript.recognition =
                            IF @ = "running" THEN "stopping" ELSE @]
    IN IF Trim(w1.transcript.currentSegment) # ""
       THEN Transcript_addTranscriptSegment(w1, w1.transcript.currentSegment)
       ELSE w1

\* no export has been made
NoExport ==
  [format |-> "", from |-> <<>>, at |-> 0,
   content |-> [header |-> "", exportDate |-> 0, entries |-> <<>>,
                wordCount |-> 0]]

\* text.split(/\s+/).length of a committed text
Words(text) == IF text = "hello world" THEN 2 ELSE 1

RECURSIVE Transcript_getWordCount(_)
\* Transcript.getWordCount
Transcript_getWordCount(segments) ==
  IF segments = <<>> THEN 0
  ELSE Words(Head(segments)) + Transcript_getWordCount(Tail(segments))

\* Transcript.exportAsText: one line per segment, its stored time and its
\* text (a segment of the model is its text; the times stored with it are
\* printed as stored)
Transcript_exportAsText(segments) ==
  [header |-> "", exportDate |-> 0, wordCount |-> 0,
   entries |-> [i \in 1..Len(segments) |-> [index |-> 0, text |-> segments[i]]]]

\* Transcript.exportAsSRT: numbered entries
Transcript_exportAsSRT(segments) ==
  [header |-> "", exportDate |-> 0, wordCount |-> 0,
   entries |-> [i \in 1..Len(segments) |-> [index |-> i, text |-> segments[i]]]]

\* Transcript.exportAsVTT: a header line and entries without numbers
Transcript_exportAsVTT(segments) ==
  [header |-> "WEBVTT", exportDate |-> 0, wordCount |-> 0,
   entries |-> [i \in 1..Len(segments) |-> [index |-> 0, text |-> segments[i]]]]

\* the object exportTranscript("json") serialises; now is new Date()
Transcript_exportAsJSON(segments, now) ==
  [header |-> "", exportDate |-> now,
   wordCount |-> Transcript_getWordCount(segments),
   entries |-> [i \in 1..Len(segments) |-> [index |-> 0, text |-> segments[i]]]]

ExportFormats == {"txt", "json", "srt", "vtt"}

\* Transcript.downloadFile(content, ...): the file handed to the browser,
\* on record with the segments it was made from and the time it was made at
Transcript_downloadFile(w, format, content, now) ==
  [w EXCEPT !.out.calls =
      Append(@, [fn |-> "Transcript.downloadFile", ok |-> TRUE, kind |-> "",
                 arg |-> format, n |-> now, authed |-> IsAuthenticated(w),
                 from |-> w.transcript.transcript, content |-> content])]

\* Transcript.exportTranscript(format) called at time now
Transcript_exportTranscript(w, format, now) ==
  LET w0 == Call(w, "Transcript.exportTranscript", TRUE, format)
      segments == w0.transcript.transcript
  IN IF segments = <<>> THEN w0
     ELSE CASE format = "txt" ->
                 Transcript_downloadFile(w0, format,
                    Transcript_exportAsText(segments), now)
            [] format = "json" ->
                 Transcript_downloadFile(w0, format,
                    Transcript_exportAsJSON(segments, now), now)
            [] format = "srt" ->
                 Transcript_downloadFile(w0, format,
                    Transcript_exportAsSRT(segments), now)
            [] format = "vtt" ->
                 Transcript_downloadFile(w0, format,
                    Transcript_exportAsVTT(segments), now)
            [] OTHER -> w0

----------------------------------------------------------------------------
(* Chat and AI *)

\* Chat.addMessage of a message object built by the caller: generateMessageId
\* gives it an id of its own, here its arrival number; push, then shift when
\* the list has grown past maxMessages
Chat_addMessage(w, text, type) ==
  LET id == w.chat.nextId + 1
      w0 == CallN(w, "Chat.addMessage", TRUE, text, id)
      pushed == Append(w0.chat.messages, [id |-> id, text |-> text, type |-> type])
  IN [w0 EXCEPT !.chat.nextId = id,
                !.chat.messages = IF Len(pushed) > maxMessages
                                  THEN Tail(pushed) ELSE pushed]

\* Chat.sendMessage: addMessage, then schedule a simulated viewer reply
Chat_sendMessage(w, message) ==
  LET w0 == Call(w, "Chat.sendMessage", TRUE, message) IN
  IF message = "" THEN w0
  ELSE [Chat_addMessage(w0, message, "user") EXCEPT !.chat.replies = @ + 1]

\* the timer set by Chat.simulateMessageResponse fires
Chat_simulatedResponse(w) ==
  [Chat_addMessage(w, "Great stream!", "viewer") EXCEPT !.chat.replies = @ - 1]

\* Chat.clearChat: asks with confirm() first
Chat_clearChat(w, confirmed) ==
  LET w0 == Call(w, "Chat.clearChat", confirmed, "") IN
  IF confirmed THEN [w0 EXCEPT !.chat.messages = <<>>] ELSE w0

\* AI.updateStatus
AI_updateStatus(w, status) == Notice(w, "aiStatus", status)

\* setEnabled that can switch the interpreter on and never off again
AI_setEnabled_sticky(w, enabled) ==
  LET w0 == [Call(w, "AI.setEnabled", TRUE, IF enabled THEN "on" ELSE "off")
               EXCEPT !.ai.isEnabled = @ \/ enabled]
  IN IF enabled /\ w0.ai.recognition = "idle"
     THEN AI_updateStatus([Call(w0, "recognition.start", TRUE, "setEnabled")
                            EXCEPT !.ai.recognition = "running"],
                          "AI: Listening")
     ELSE w0

\* AI.setEnabled: the flag is written first.  The recognizer is
\* "unsupported" (this.recognition is null), "idle", "running", or
\* "stopping" after stop() until its end event; start() on a recognizer that
\* is not idle throws InvalidStateError, which nothing here catches; stop()
\* on one that is not running does nothing.
AI_setEnabled(w, enabled) ==
  LET w0 == [Call(w, "AI.setEnabled", TRUE, IF enabled THEN "on" ELSE "off")
               EXCEPT !.ai.isEnabled = enabled]
  IN CASE w0.ai.recognition = "unsupported" -> w0
       [] enabled /\ w0.ai.recognition = "idle" ->
            AI_updateStatus([Call(w0, "recognition.start", TRUE, "setEnabled")
                               EXCEPT !.ai.recognition = "running"],
                            "AI: Listening")
       [] enabled ->
            [Call(w0, "recognition.start", FALSE, "setEnabled")
               EXCEPT !.out.threw = TRUE]
       [] OTHER ->
            AI_updateStatus([w0 EXCEPT !.ai.recognition =
                                         IF @ = "running" THEN "stopping" ELSE @],
                            "AI: Disabled")

\* the timer set by recognition.onend fires
AI_restartCallback_noCheck(w) ==
  LET w0 == Call(w, "AI.restartCallback", TRUE, "") IN
  IF w0.ai.recognition = "idle"
  THEN [Call(w0, "recognition.start", TRUE, "restart")
          EXCEPT !.ai.recognition = "running"]
  ELSE [Call(w0, "recognition.start", FALSE, "restart")
          EXCEPT !.out.threw = TRUE]

\* the timer set by recognition.onend fires: start again when still enabled
AI_restartCallback(w) ==
  LET w0 == Call(w, "AI.restartCallback", TRUE, "") IN
  IF ~w0.ai.isEnabled THEN w0
  ELSE IF w0.ai.recognition = "idle"
  THEN [Call(w0, "recognition.start", TRUE, "restart")
          EXCEPT !.ai.recognition = "running"]
  ELSE [Call(w0, "recognition.start", FALSE, "restart")
          EXCEPT !.out.threw = TRUE]

\* the errors the recognizer reports before it ends, "" for none
RecognitionErrors == {"", "no-speech", "not-allowed", "network"}

\* AI.handleRecognitionError
AI_handleRecognitionError(w, error) ==
  IF error = "no-speech" THEN w
  ELSE AI_updateStatus(w, "AI: Error")

\* recognition.onerror (when the recognizer ends on an error) followed by
\* recognition.onend; scheduled tells whether onend set the restart timer
AI_onEnd(w, error) ==
  LET w0 == Call(w, "AI.recognition.onend", TRUE, error)
      w1 == IF error = "" THEN w0 ELSE AI_handleRecognitionError(w0, error)
      w2 == AI_updateStatus([w1 EXCEPT !.ai.recognition = "idle"],
                            "AI: Disabled")
  IN [scheduled |-> w2.ai.isEnabled, w |-> w2]

----------------------------------------------------------------------------
(* AI: the command tables and the matching of an utterance against them *)

\* the command vocabulary: the actions executeCommand has a case for
Vocabulary ==
  {"startRecording", "stopRecording", "startStreaming", "stopStreaming",
   "takeScreenshot", "toggleMute", "switchScene", "clearChat"}

\* AI.settings.commands, in the order Object.entries walks it
Commands ==
  << [command |-> "start recording", action |-> "startRecording"],
     [command |-> "stop recording", action |-> "stopRecording"],
     [command |-> "go live", action |-> "startStreaming"],
     [command |-> "end stream", action |-> "stopStreaming"],
     [command |-> "take screenshot", action |-> "takeScreenshot"],
     [command |-> "mute audio", action |-> "toggleMute"],
     [command |-> "unmute audio", action |-> "toggleMute"],
     [command |-> "switch scene", action |-> "switchScene"],
     [command |-> "clear chat", action |-> "clearChat"] >>

\* fuzzyCommands of AI.findMatchingCommand, in the same order
FuzzyCommands ==
  << [command |-> "start record", action |-> "startRecording"],
     [command |-> "begin record", action |-> "startRecording"],
     [command |-> "stop record", action |-> "stopRecording"],
     [command |-> "end record", action |-> "stopRecording"],
     [command |-> "start stream", action |-> "startStreaming"],
     [command |-> "begin stream", action |-> "startStreaming"],
     [command |-> "stop stream", action |-> "stopStreaming"],
     [command |-> "end stream", action |-> "stopStreaming"],
     [command |-> "screenshot", action |-> "takeScreenshot"],
     [command |-> "capture", action |-> "takeScreenshot"],
     [command |-> "mute", action |-> "toggleMute"],
     [command |-> "unmute", action |-> "toggleMute"],
     [command |-> "scene", action |-> "switchScene"],
     [command |-> "clear", action |-> "clearChat"] >>

\* what the recognizer hands to onresult: the text of the first alternative
\* as heard, and its confidence in percent
RawUtterances ==
  {"start recording", "end stream", "take screenshot", " Mute Audio",
   "unmute", "switch scene", "begin recording and clear chat",
   "hello everyone"}

Confidences == {50, 70, 90}

\* settings.sensitivity (0.7) in percent
DefaultSensitivity == 70

\* the confidence of a table match: findMatchingCommand returns no such field
NoConfidence == -1

ApiKeys == {"", "sk-test"}

\* what the remote classifier can answer: the request fails (or the answer
\* does not parse), the answer has no action, a vocabulary action, another one
RemoteActions == {"", "stopRecording", "startStreaming", "toggleMute", "shutdown"}

\* confidence of an answer, 0 when the field is missing
RemoteConfidences == {0, 90}

\* transcript.toLowerCase().trim()
ToLowerTrim(raw) ==
  CASE raw = " Mute Audio" -> "mute audio"
    [] OTHER -> raw

\* a lower-case text as the sequence of its pieces: String.includes is a
\* substring test on characters, and the pieces are cut where a table entry
\* can begin or end inside these texts ("record" inside "recording", "mute"
\* inside "unmute")
Tok(s) ==
  CASE s = "start recording" -> <<"start", " ", "record", "ing">>
    [] s = "stop recording" -> <<"stop", " ", "record", "ing">>
    [] s = "go live" -> <<"go", " ", "live">>
    [] s = "end stream" -> <<"end", " ", "stream">>
    [] s = "take screenshot" -> <<"take", " ", "screenshot">>
    [] s = "mute audio" -> <<"mute", " ", "audio">>
    [] s = "unmute audio" -> <<"un", "mute", " ", "audio">>
    [] s = "switch scene" -> <<"switch", " ", "scene">>
    [] s = "clear chat" -> <<"clear", " ", "chat">>
    [] s = "start record" -> <<"start", " ", "record">>
    [] s = "begin record" -> <<"begin", " ", "record">>
    [] s = "stop record" -> <<"stop", " ", "record">>
    [] s = "end record" -> <<"end", " ", "record">>
    [] s = "start stream" -> <<"start", " ", "stream">>
    [] s = "begin stream" -> <<"begin", " ", "stream">>
    [] s = "stop stream" -> <<"stop", " ", "stream">>
    [] s = "unmute" -> <<"un", "mute">>
    [] s = "begin recording and clear chat" ->
         <<"begin", " ", "record", "ing", " ", "and", " ", "clear", " ", "chat">>
    [] s = "hello everyone" -> <<"hello", " ", "everyone">>
    [] OTHER -> <<s>>

\* transcript.includes(command)
Includes(utterance, command) ==
  LET t == Tok(utterance)
      c == Tok(command)
  IN \E i \in 0..(Len(t) - Len(c)) : \A j \in 1..Len(c) : t[i + j] = c[j]

FirstMatch(table, utterance) ==
  LET hits == {i \in 1..Len(table) : Includes(utterance, table[i].command)}
  IN IF hits = {} THEN 0 ELSE CHOOSE i \in hits : \A j \in hits : i <= j

NoMatch == [action |-> "", command |-> "", type |-> "none"]

\* findMatchingCommand that tries the fuzzy table before the direct one
AI_findMatchingCommand_fuzzyFirst(utterance) ==
  LET d == FirstMatch(Commands, utterance)
      f == FirstMatch(FuzzyCommands, utterance)
  IN IF f # 0
     THEN [action |-> FuzzyCommands[f].action,
           command |-> FuzzyCommands[f].command, type |-> "fuzzy"]
     ELSE IF d # 0
     THEN [action |-> Commands[d].action,
           command |-> Commands[d].command, type |-> "direct"]
     ELSE NoMatch

\* AI.findMatchingCommand: the first direct entry the utterance includes,
\* else the first fuzzy entry, else null
AI_findMatchingCommand(utterance) ==
  LET d == FirstMatch(Commands, utterance)
      f == FirstMatch(FuzzyCommands, utterance)
  IN IF d # 0
     THEN [action |-> Commands[d].action,
           command |-> Commands[d].command, type |-> "direct"]
     ELSE IF f # 0
     THEN [action |-> FuzzyCommands[f].action,
           command |-> FuzzyCommands[f].command, type |-> "fuzzy"]
     ELSE NoMatch

\* AI.logCommand with pop() in place of shift()
AI_logCommand_evictNewest(w, commandData) ==
  LET n == w.ai.logged + 1
      entry == [action |-> commandData.action,
                originalTranscript |-> commandData.originalTranscript,
                confidence |-> commandData.confidence,
                type |-> commandData.type, timestamp |-> n]
      pushed == Append(w.ai.commandHistory, entry)
      w0 == CallN(w, "AI.logCommand", TRUE, commandData.action, n)
  IN [w0 EXCEPT !.ai.logged = n,
                !.ai.commandHistory = IF Len(pushed) > maxHistorySize
                                      THEN SubSeq(pushed, 1, Len(pushed) - 1)
                                      ELSE pushed]

\* AI.logCommand: push, then shift when the history has grown past
\* maxHistorySize; the entry's timestamp is its arrival number
AI_logCommand(w, commandData) ==
  LET n == w.ai.logged + 1
      entry == [action |-> commandData.action,
                originalTranscript |-> commandData.originalTranscript,
                confidence |-> commandData.confidence,
                type |-> commandData.type, timestamp |-> n]
      pushed == Append(w.ai.commandHistory, entry)
      w0 == CallN(w, "AI.logCommand", TRUE, commandData.action, n)
  IN [w0 EXCEPT !.ai.logged = n,
                !.ai.commandHistory = IF Len(pushed) > maxHistorySize
                                      THEN Tail(pushed) ELSE pushed]

\* executeCommand with a default case that dispatches an event for an action
\* it does not know
EventOf_unknownDispatched(action) ==
  CASE action = "startRecording" -> "ai-start-recording"
    [] action = "stopRecording" -> "ai-stop-recording"
    [] action = "startStreaming" -> "ai-start-streaming"
    [] action = "stopStreaming" -> "ai-stop-streaming"
    [] action = "takeScreenshot" -> "ai-take-screenshot"
    [] action = "toggleMute" -> "ai-toggle-mute"
    [] action = "switchScene" -> "ai-switch-scene"
    [] action = "clearChat" -> "ai-clear-chat"
    [] OTHER -> "ai-unknown"

\* the event executeCommand's switch dispatches for an action, "" for none
EventOf(action) ==
  CASE action = "startRecording" -> "ai-start-recording"
    [] action = "stopRecording" -> "ai-stop-recording"
    [] action = "startStreaming" -> "ai-start-streaming"
    [] action = "stopStreaming" -> "ai-stop-streaming"
    [] action = "takeScreenshot" -> "ai-take-screenshot"
    [] action = "toggleMute" -> "ai-toggle-mute"
    [] action = "switchScene" -> "ai-switch-scene"
    [] action = "clearChat" -> "ai-clear-chat"
    [] OTHER -> ""

\* feedbackMessages[action] || "Command executed"
FeedbackMessage(action) ==
  CASE action = "startRecording" -> "Starting recording..."
    [] action = "stopRecording" -> "Stopping recording..."
    [] action = "startStreaming" -> "Going live..."
    [] action = "stopStreaming" -> "Ending stream..."
    [] action = "takeScreenshot" -> "Taking screenshot..."
    [] action = "toggleMute" -> "Toggling audio..."
    [] action = "switchScene" -> "Switching scene..."
    [] action = "clearChat" -> "Clearing chat..."
    [] OTHER -> "Command executed"

\* AI.showCommandFeedback: the AI status line and a toast; an undefined
\* confidence compares false with 0.8
AI_showCommandFeedback(w, action, confidence) ==
  LET message == FeedbackMessage(action) IN
  Notice(Notice(w, "aiStatus", message),
         IF confidence > 80 THEN "ai-notification success"
                            ELSE "ai-notification warning",
         message)

----------------------------------------------------------------------------
(* StreamStudio: presentation helpers *)

showError(w, message) == Notice(w, "error", message)

updateStatus(w, text) == Notice(w, "status", text)

showNotification(w, message) == Notice(w, "success", message)

\* StreamStudio.startRecordingTimer: takes the time as the start of the
\* recording and sets a new interval going, whose handle replaces the one
\* held; app.timerInterval says that a handle is held, dom.strayIntervals
\* that an interval runs whose handle is not held any more
startRecordingTimer(w) ==
  Call([w EXCEPT !.dom.strayIntervals = @ \/ w.app.timerInterval,
                 !.app.timerInterval = TRUE],
       "startRecordingTimer", TRUE, "")

\* StreamStudio.stopRecordingTimer: clears the interval whose handle is held
stopRecordingTimer(w) == [w EXCEPT !.app.timerInterval = FALSE]

\* StreamStudio.updateUI: the enablement of the four transport buttons and
\* the elapsed-time ticker
updateUI(w) ==
  LET w0 == [w EXCEPT !.dom.startRecordingDisabled = w.app.isRecording,
                      !.dom.stopRecordingDisabled = ~w.app.isRecording,
                      !.dom.startStreamDisabled =
                           w.app.isStreaming \/ w.app.currentSource = NoSource,
                      !.dom.stopStreamDisabled = ~w.app.isStreaming]
  IN IF w0.app.isRecording THEN startRecordingTimer(w0)
     ELSE stopRecordingTimer(w0)

showSourceModal(w) ==
  Notice([w EXCEPT !.dom.sourcesModal = TRUE], "prompt", "sources")

hideSourceModal(w) == [w EXCEPT !.dom.sourcesModal = FALSE]

showAuthModal(w) ==
  Notice([w EXCEPT !.dom.authModal = TRUE], "prompt", "auth")

hideAuthModal(w) == [w EXCEPT !.dom.authModal = FALSE]

\* StreamStudio.handlePlatformChange
handlePlatformChange(w, platform) ==
  [w EXCEPT !.dom.streamPlatform = platform,
            !.dom.startStreamDisabled = (platform = "")]

----------------------------------------------------------------------------
(* StreamStudio: auth helpers *)

saveAuth(w, email) == [w EXCEPT !.app.auth = email]

clearAuth(w) == [w EXCEPT !.app.auth = NoAuth]

\* requireAuth that keeps the closure it already holds
requireAuth_keepFirst(w, actionCallback) ==
  showAuthModal(CallAction(
    [w EXCEPT !.app.postAuthAction = IF @ = NoAction THEN actionCallback ELSE @],
    "requireAuth", actionCallback))

\* StreamStudio.requireAuth
requireAuth(w, actionCallback) ==
  showAuthModal(CallAction([w EXCEPT !.app.postAuthAction = actionCallback],
                           "requireAuth", actionCallback))

----------------------------------------------------------------------------
(* StreamStudio: recording *)

\* startRecording that raises isRecording before Recorder.start has succeeded
startRecording_flagFirst(w, mr) ==
  LET w0 == Call(w, "startRecording", TRUE, "") IN
  IF ~IsAuthenticated(w0) THEN requireAuth(w0, DeferredStartRecording)
  ELSE IF w0.app.currentSource = NoSource
  THEN showSourceModal([w0 EXCEPT !.app.startAfterSource = TRUE])
  ELSE
    LET r == Recorder_start([w0 EXCEPT !.app.isRecording = TRUE],
                            w0.app.currentSource, mr) IN
    IF r.ok
    THEN Transcript_start(updateStatus(updateUI(r.w), "Recording"))
    ELSE showError(r.w, "Failed to start recording")

\* startRecording without the return after showSourceModal()
startRecording_noReturn(w, mr) ==
  LET w0 == Call(w, "startRecording", TRUE, "") IN
  IF ~IsAuthenticated(w0) THEN requireAuth(w0, DeferredStartRecording)
  ELSE
    LET w1 == IF w0.app.currentSource = NoSource
              THEN showSourceModal([w0 EXCEPT !.app.startAfterSource = TRUE])
              ELSE w0
        r == Recorder_start(w1, w1.app.currentSource, mr) IN
    IF r.ok
    THEN Transcript_start(
           updateStatus(updateUI([r.w EXCEPT !.app.isRecording = TRUE]),
                        "Recording"))
    ELSE showError(r.w, "Failed to start recording")

\* StreamStudio.startRecording. "await this.recorder.start(..)" awaits a
\* promise that Recorder.start has already settled, so the continuation is
\* part of the same task.
startRecording(w, mr) ==
  LET w0 == Call(w, "startRecording", TRUE, "") IN
  IF ~IsAuthenticated(w0) THEN requireAuth(w0, DeferredStartRecording)
  ELSE IF w0.app.currentSource = NoSource
  THEN showSourceModal([w0 EXCEPT !.app.startAfterSource = TRUE])
  ELSE
    LET r == Recorder_start(w0, w0.app.currentSource, mr) IN
    IF r.ok
    THEN Transcript_start(
           updateStatus(updateUI([r.w EXCEPT !.app.isRecording = TRUE]),
                        "Recording"))
    ELSE showError(r.w, "Failed to start recording")

\* stopRecording that leaves the transcript running
stopRecording_noTranscriptStop(w, stopThrows) ==
  LET w0 == Call(w, "stopRecording", TRUE, "")
      r == Recorder_stop(w0, stopThrows) IN
  IF r.ok
  THEN updateStatus(updateUI([r.w EXCEPT !.app.isRecording = FALSE]), "Ready")
  ELSE showError(r.w, "Failed to stop recording")

\* StreamStudio.stopRecording
stopRecording(w, stopThrows) ==
  LET w0 == Call(w, "stopRecording", TRUE, "")
      r == Recorder_stop(w0, stopThrows) IN
  IF r.ok
  THEN Transcript_stop(
         updateStatus(updateUI([r.w EXCEPT !.app.isRecording = FALSE]),
                      "Ready"))
  ELSE showError(r.w, "Failed to stop recording")

----------------------------------------------------------------------------
(* StreamStudio: source selection *)

\* selectSource that retries without clearing startAfterSource
selectSource_resolved_keepFlag(w, stream, mr) ==
  LET w0 == Call([w EXCEPT !.recorder.stream = stream,
                          !.recorder.audioTracks = AudioTracksOf(stream)],
                 "Recorder.selectSource", TRUE, "")
      w1 == updateUI(hideSourceModal([w0 EXCEPT !.app.currentSource = stream]))
  IN IF w1.app.startAfterSource
     THEN startRecording(Call(w1, "autoRetry", TRUE, ""), mr)
     ELSE w1

\* StreamStudio.selectSource after Recorder.selectSource has resolved with
\* the stream: Recorder.selectSource stored it in Recorder.stream.  The
\* audio tracks the stream comes with are enabled.
selectSource_resolved(w, stream, mr) ==
  LET w0 == Call([w EXCEPT !.recorder.stream = stream,
                          !.recorder.audioTracks = AudioTracksOf(stream)],
                 "Recorder.selectSource", TRUE, "")
      w1 == updateUI(hideSourceModal([w0 EXCEPT !.app.currentSource = stream]))
  IN IF w1.app.startAfterSource
     THEN startRecording(Call([w1 EXCEPT !.app.startAfterSource = FALSE],
                              "autoRetry", TRUE, ""), mr)
     ELSE w1

\* StreamStudio.selectSource after Recorder.selectSource has rejected
selectSource_rejected(w) ==
  showError(Call(w, "Recorder.selectSource", FALSE, ""),
            "Failed to select video source")

----------------------------------------------------------------------------
(* StreamStudio: streaming *)

\* startStreaming without the check for a current source
startStreaming_call_noSourceCheck(w) ==
  LET w0 == Call(w, "startStreaming", TRUE, "") IN
  IF w0.dom.streamPlatform = ""
  THEN [suspended |-> FALSE,
        w |-> showError(w0, "Please select a streaming platform")]
  ELSE
    LET r == Streamer_start_check(w0, w0.dom.streamPlatform) IN
    IF r.ok THEN [suspended |-> TRUE, w |-> r.w]
    ELSE [suspended |-> FALSE, w |-> showError(r.w, "Failed to start streaming")]

\* startStreaming that raises isStreaming before Streamer.start is called
startStreaming_call_optimistic(w) ==
  LET w0 == Call(w, "startStreaming", TRUE, "") IN
  IF w0.dom.streamPlatform = ""
  THEN [suspended |-> FALSE,
        w |-> showError(w0, "Please select a streaming platform")]
  ELSE IF w0.app.currentSource = NoSource
  THEN [suspended |-> FALSE,
        w |-> showError(w0, "Please select a video source first")]
  ELSE
    LET r == Streamer_start_check([w0 EXCEPT !.app.isStreaming = TRUE],
                                  w0.dom.streamPlatform) IN
    IF r.ok THEN [suspended |-> TRUE, w |-> r.w]
    ELSE [suspended |-> FALSE, w |-> showError(r.w, "Failed to start streaming")]

\* StreamStudio.startStreaming up to the point where Streamer.start suspends
startStreaming_call(w) ==
  LET w0 == Call(w, "startStreaming", TRUE, "") IN
  IF w0.dom.streamPlatform = ""
  THEN [suspended |-> FALSE,
        w |-> showError(w0, "Please select a streaming platform")]
  ELSE IF w0.app.currentSource = NoSource
  THEN [suspended |-> FALSE,
        w |-> showError(w0, "Please select a video source first")]
  ELSE
    LET r == Streamer_start_check(w0, w0.dom.streamPlatform) IN
    IF r.ok THEN [suspended |-> TRUE, w |-> r.w]
    ELSE [suspended |-> FALSE, w |-> showError(r.w, "Failed to start streaming")]

\* the rest of Streamer.start and of StreamStudio.startStreaming
startStreaming_resume(w) ==
  updateStatus(updateUI([Streamer_start_resume(w) EXCEPT !.app.isStreaming = TRUE]),
               "Streaming")

\* StreamStudio.stopStreaming up to the point where Streamer.stop suspends
stopStreaming_call(w) ==
  LET w0 == Call(w, "stopStreaming", TRUE,
                 IF w.inFlight.streamStarts > 0 THEN "connecting" ELSE "")
      r == Streamer_stop_check(w0) IN
  IF r.ok THEN [suspended |-> TRUE, w |-> r.w]
  ELSE [suspended |-> FALSE, w |-> showError(r.w, "Failed to stop streaming")]

\* the rest of stopStreaming without the reset of the controller's flag
stopStreaming_resume_keepFlag(w) ==
  updateStatus(updateUI(Streamer_stop_resume(w)), "Ready")

\* the rest of Streamer.stop and of StreamStudio.stopStreaming
stopStreaming_resume(w) ==
  updateStatus(updateUI([Streamer_stop_resume(w) EXCEPT !.app.isStreaming = FALSE]),
               "Ready")

----------------------------------------------------------------------------
(* StreamStudio: gated actions and sign-in *)

\* sendChatMessage without the auth gate
sendChatMessage_ungated(w, message) ==
  IF message = "" THEN w
  ELSE Chat_sendMessage(w, message)

\* StreamStudio.sendChatMessage; message is the trimmed input value
sendChatMessage(w, message) ==
  IF message = "" THEN w
  ELSE IF ~IsAuthenticated(w) THEN requireAuth(w, DeferredSendMessage(message))
  ELSE Chat_sendMessage(w, message)

\* StreamStudio.toggleAICommands; enabled is the new state of the checkbox
toggleAICommands(w, enabled) ==
  LET w0 == Call(w, "toggleAICommands", TRUE, IF enabled THEN "on" ELSE "off") IN
  IF enabled /\ ~IsAuthenticated(w0)
  THEN requireAuth([w0 EXCEPT !.dom.aiCommands = FALSE], DeferredEnableAI)
  ELSE AI_setEnabled([w0 EXCEPT !.dom.aiCommands = enabled], enabled)

\* the body of the closure that was handed to requireAuth
RunDeferred(w, action, mr) ==
  CASE action.kind = "startRecording" -> startRecording(w, mr)
    [] action.kind = "sendMessage" -> Chat_sendMessage(w, action.arg)
    [] action.kind = "enableAI" ->
         AI_setEnabled([w EXCEPT !.dom.aiCommands = TRUE], TRUE)
    [] OTHER -> w

\* resumePostAuthAction that does not null postAuthAction before the call
resumePostAuthAction_noClear(w, mr) ==
  IF w.app.postAuthAction = NoAction THEN w
  ELSE
    LET action == w.app.postAuthAction
        w1 == CallAction(w, "postAuthAction", action)
    IN RunDeferred(w1, action, mr)

\* StreamStudio.resumePostAuthAction
resumePostAuthAction(w, mr) ==
  IF w.app.postAuthAction = NoAction THEN w
  ELSE
    LET action == w.app.postAuthAction
        w1 == CallAction([w EXCEPT !.app.postAuthAction = NoAction],
                         "postAuthAction", action)
    IN RunDeferred(w1, action, mr)

\* StreamStudio.handleAuthSignIn
handleAuthSignIn(w, email, password, mr) ==
  IF email = "" \/ password = ""
  THEN showError(w, "Please enter email and password")
  ELSE LET w1 == resumePostAuthAction(hideAuthModal(saveAuth(w, email)), mr)
       IN IF w1.out.threw THEN w1 ELSE showNotification(w1, "Signed in")

\* StreamStudio.handleAuthSignUp
handleAuthSignUp(w, email, password, mr) ==
  IF email = "" \/ password = ""
  THEN showError(w, "Please enter email and password")
  ELSE LET w1 == resumePostAuthAction(hideAuthModal(saveAuth(w, email)), mr)
       IN IF w1.out.threw THEN w1
          ELSE showNotification(w1, "Account created & signed in")

\* StreamStudio.logout
logout(w) == Notice(clearAuth(w), "info", "Logged out")

----------------------------------------------------------------------------
(* StreamStudio: quick actions *)

\* StreamStudio.takeScreenshot
takeScreenshot(w) ==
  LET w0 == Call(w, "takeScreenshot", TRUE, "") IN
  IF w0.app.currentSource # NoSource THEN Recorder_takeScreenshot(w0) ELSE w0

\* StreamStudio.toggleMute
toggleMute(w) == Recorder_toggleMute(Call(w, "toggleMute", TRUE, ""))

----------------------------------------------------------------------------
(* The voice path: AI.executeCommand, the document event, the UI listener *)

\* what the environment decides while a command runs: the MediaRecorder's
\* behaviour and the user's answer to clearChat's confirm().  A command
\* dispatches one event and so meets one of these decisions at most.
CommandEnvs ==
  [mr : MediaRecorderOutcomes, stopThrows : {FALSE}, confirmed : {FALSE}]
    \cup [mr : {"ok"}, stopThrows : {TRUE}, confirmed : {FALSE}]
    \cup [mr : {"ok"}, stopThrows : {FALSE}, confirmed : {TRUE}]

\* the listeners UI.setupEventListeners registers for the "ai-*" events;
\* dispatchEvent runs them before it returns.  suspended tells which await
\* the called operation is parked at, if any.  No listener is registered for
\* "ai-switch-scene".
UI_onAIEvent(w, eventName, env) ==
  CASE eventName = "ai-start-recording" ->
         [suspended |-> "none", w |-> startRecording(w, env.mr)]
    [] eventName = "ai-stop-recording" ->
         [suspended |-> "none", w |-> stopRecording(w, env.stopThrows)]
    [] eventName = "ai-start-streaming" ->
         LET r == startStreaming_call(w) IN
         [suspended |-> IF r.suspended THEN "streamStart" ELSE "none", w |-> r.w]
    [] eventName = "ai-stop-streaming" ->
         LET r == stopStreaming_call(w) IN
         [suspended |-> IF r.suspended THEN "streamStop" ELSE "none", w |-> r.w]
    [] eventName = "ai-take-screenshot" ->
         [suspended |-> "none", w |-> takeScreenshot(w)]
    [] eventName = "ai-toggle-mute" ->
         [suspended |-> "none", w |-> toggleMute(w)]
    [] eventName = "ai-clear-chat" ->
         [suspended |-> "none", w |-> Chat_clearChat(w, env.confirmed)]
    [] OTHER -> [suspended |-> "none", w |-> w]

\* AI.executeCommand: log, dispatch the action's event, show feedback.  (The
\* continuation of an awaited Recorder.start or Recorder.stop runs after the
\* feedback, in the same task; the trace lists it with its operation.)
AI_executeCommand(w, commandData, originalTranscript, env) ==
  LET w1 == AI_logCommand(w, [action |-> commandData.action,
                              originalTranscript |-> originalTranscript,
                              confidence |-> commandData.confidence,
                              type |-> commandData.type])
      ev == EventOf(commandData.action)
      r == IF ev = "" THEN [suspended |-> "none", w |-> w1]
           ELSE UI_onAIEvent(Call(w1, "dispatchEvent", TRUE, ev), ev, env)
  IN [suspended |-> r.suspended,
      w |-> AI_showCommandFeedback(r.w, commandData.action,
                                   commandData.confidence)]

\* AI.processNaturalLanguageCommand up to the fetch of sendToAI
AI_processNaturalLanguageCommand(w, utterance) ==
  IF w.ai.settings.apiKey = "" THEN [suspended |-> "none", w |-> w]
  ELSE [suspended |-> "remote", w |-> Call(w, "AI.sendToAI", TRUE, utterance)]

\* AI.processCommand
AI_processCommand(w, utterance, env) ==
  LET matchedCommand == AI_findMatchingCommand(utterance) IN
  IF matchedCommand # NoMatch
  THEN AI_executeCommand(w, [action |-> matchedCommand.action,
                             confidence |-> NoConfidence,
                             type |-> matchedCommand.type],
                         utterance, env)
  ELSE AI_processNaturalLanguageCommand(w, utterance)

\* handleRecognitionResult without the comparison with settings.sensitivity
AI_handleRecognitionResult_noThreshold(w, raw, confidence, env) ==
  LET w0 == CallN(w, "AI.handleRecognitionResult", TRUE, raw, confidence)
  IN AI_processCommand(w0, ToLowerTrim(raw), env)

\* AI.handleRecognitionResult: the recognizer runs with interimResults off,
\* so the last result is final
AI_handleRecognitionResult(w, raw, confidence, env) ==
  LET w0 == CallN(w, "AI.handleRecognitionResult", TRUE, raw, confidence)
  IN IF confidence >= w0.ai.settings.sensitivity
     THEN AI_processCommand(w0, ToLowerTrim(raw), env)
     ELSE [suspended |-> "none", w |-> w0]

\* the then/catch of processNaturalLanguageCommand once sendToAI has settled:
\* action = "" stands for a rejection and for an answer without an action;
\* confidence is content.confidence || 0.5
AI_onRemoteResponse(w, utterance, action, confidence, env) ==
  LET w0 == CallN(w, "AI.remoteResponse", action # "", action, confidence) IN
  IF action = "" THEN [suspended |-> "none", w |-> w0]
  ELSE AI_executeCommand(w0, [action |-> action,
                              confidence |-> IF confidence = 0 THEN 50
                                                               ELSE confidence,
                              type |-> "ai"],
                         utterance, env)

-----------------------------------------------------------------------------
(* Start-up: new StreamStudio() and init() *)

\* what localStorage holds under one key: nothing, text that JSON.parse
\* rejects, or what an earlier session saved there
Absent    == "(none)"
Malformed == "{not json"
StorageKeys ==
  {"auth", "streamerSettings", "chatHistory", "transcriptSettings",
   "aiSettings", "uiSettings"}
SavedValues(key) ==
  CASE key = "auth" -> Emails
    [] key = "streamerSettings" -> StreamKeys
    [] key = "aiSettings" -> ApiKeys
    [] OTHER -> {"saved"}
Storages ==
  {st \in [StorageKeys -> {Absent, Malformed, "saved"} \cup Emails
                            \cup StreamKeys \cup ApiKeys] :
     \A key \in StorageKeys : st[key] \in {Absent, Malformed} \cup SavedValues(key)}

\* StreamStudio.loadAuth: the parse is inside try/catch
loadAuth(w, raw) ==
  [Call(w, "loadAuth", TRUE, raw)
     EXCEPT !.app.auth = IF raw \in Emails THEN raw ELSE NoAuth]

\* Streamer.loadSettings: JSON.parse outside any try
Streamer_loadSettings(w, raw) ==
  IF raw = Absent THEN Call(w, "Streamer.loadSettings", TRUE, raw)
  ELSE IF raw = Malformed
  THEN [Call(w, "Streamer.loadSettings", FALSE, raw) EXCEPT !.out.threw = TRUE]
  ELSE [Call(w, "Streamer.loadSettings", TRUE, raw)
          EXCEPT !.streamer.settings.streamKey = raw]

\* Chat.loadChatHistory: the parse is inside try/catch; a saved history is
\* the empty list here
Chat_loadChatHistory(w, raw) == Call(w, "Chat.loadChatHistory", TRUE, raw)

\* Transcript.loadSettings: JSON.parse outside any try
Transcript_loadSettings(w, raw) ==
  IF raw = Malformed
  THEN [Call(w, "Transcript.loadSettings", FALSE, raw) EXCEPT !.out.threw = TRUE]
  ELSE Call(w, "Transcript.loadSettings", TRUE, raw)

\* Transcript.init: returns early without speech recognition; rethrows
Transcript_init(w, raw, speech) ==
  IF ~speech THEN w
  ELSE Transcript_loadSettings([w EXCEPT !.transcript.recognition = "idle"], raw)

\* AI.loadSettings: JSON.parse outside any try
AI_loadSettings(w, raw) ==
  IF raw = Absent THEN Call(w, "AI.loadSettings", TRUE, raw)
  ELSE IF raw = Malformed
  THEN [Call(w, "AI.loadSettings", FALSE, raw) EXCEPT !.out.threw = TRUE]
  ELSE [Call(w, "AI.loadSettings", TRUE, raw) EXCEPT !.ai.settings.apiKey = raw]

\* AI.init: loadSettings, setupSpeechRecognition; rethrows
AI_init(w, raw, speech) ==
  LET w1 == AI_loadSettings(w, raw) IN
  IF w1.out.threw \/ ~speech THEN w1
  ELSE [w1 EXCEPT !.ai.recognition = "idle"]

\* UI.loadSettings: the parse is inside try/catch
UI_loadSettings(w, raw) == Call(w, "UI.loadSettings", TRUE, raw)

\* StreamStudio.setupEventListeners
setupEventListeners(w) ==
  [Call(w, "setupEventListeners", TRUE, "") EXCEPT !.dom.listeners = TRUE]

\* StreamStudio.init: the modules' init() in order (Recorder.init reads
\* nothing; Streamer.init, Chat.init and UI.init are their loads, each
\* init() rethrows), then the listeners; the first init() that throws ends
\* it at the catch
StreamStudio_init(w, st, speech) ==
  LET w1 == Streamer_loadSettings(w, st["streamerSettings"])
      w2 == IF w1.out.threw THEN w1
            ELSE Chat_loadChatHistory(w1, st["chatHistory"])
      w3 == IF w2.out.threw THEN w2
            ELSE Transcript_init(w2, st["transcriptSettings"], speech)
      w4 == IF w3.out.threw THEN w3 ELSE AI_init(w3, st["aiSettings"], speech)
      w5 == IF w4.out.threw THEN w4 ELSE UI_loadSettings(w4, st["uiSettings"])
  IN IF w5.out.threw
     THEN showError([w5 EXCEPT !.out.threw = FALSE], "Failed to initialize application")
     ELSE updateUI(setupEventListeners(w5))

\* new StreamStudio(): the fields' defaults, loadAuth, init()
StreamStudio_new(w, st, speech) ==
  StreamStudio_init(loadAuth(w, st["auth"]), st, speech)

----------------------------------------------------------------------------
(* State *)

\* new StreamStudio() followed by init(): loadAuth and Streamer.loadSettings
\* read what an earlier session stored; init ends with updateUI()
Init ==
  /\ app \in [isRecording : {FALSE}, isStreaming : {FALSE},
              currentSource : {NoSource}, auth : {NoAuth} \cup Emails,
              postAuthAction : {NoAction}, startAfterSource : {FALSE},
              timerInterval : {FALSE}]
  /\ recorder = [isRecording |-> FALSE, stream |-> NoSource,
                 mediaRecorder |-> NoMediaRecorder, recordedChunks |-> 0,
                 audioTracks |-> <<>>]
  /\ streamer \in [isStreaming : {FALSE}, viewerCount : {0},
                   settings : [streamKey : StreamKeys]]
  /\ transcript \in [isActive : {FALSE}, transcript : {<<>>},
                     currentSegment : {""},
                     recognition : {"unsupported", "idle"}]
  /\ chat = [messages |-> <<>>, replies |-> 0, nextId |-> 0]
  /\ ai \in [isEnabled : {FALSE}, recognition : {"idle"},
              commandHistory : {<<>>}, logged : {0},
              settings : [apiKey : ApiKeys, sensitivity : {DefaultSensitivity}]]
  /\ dom = [startRecordingDisabled |-> FALSE, stopRecordingDisabled |-> TRUE,
            startStreamDisabled |-> TRUE, stopStreamDisabled |-> TRUE,
            sourcesModal |-> FALSE, authModal |-> FALSE,
            streamPlatform |-> "", aiCommands |-> FALSE,
            muteLabel |-> "Mute Audio", listeners |-> TRUE,
            strayIntervals |-> FALSE]
  /\ pending = [selects |-> 0, streamStarts |-> 0, streamStops |-> 0,
                streams |-> 0, aiRequests |-> <<>>, aiRestarts |-> 0,
                capture |-> NoCapture]
  /\ last = [op |-> "init", notices |-> <<>>, calls |-> <<>>]
  /\ hist = [lastRecorderOp |-> "none", deferredRuns |-> 0, dismissed |-> FALSE,
             held |-> NoAction, replaced |-> FALSE, autoRetries |-> 0,
             stopWhileConnecting |-> FALSE, exported |-> NoExport]

\* the world a handler starts in; inFlight is what is suspended at that time
World ==
  [app |-> app, recorder |-> recorder, streamer |-> streamer,
   transcript |-> transcript, chat |-> chat, ai |-> ai, dom |-> dom,
   inFlight |-> pending, out |-> EmptyOut]

RECURSIVE HistAfter(_, _)
\* the history variables after the calls of one handler, in call order:
\*   lastRecorderOp  the last Recorder.start / Recorder.stop that did not throw
\*   held            the closure requireAuth stored last, until it is invoked
\*   replaced        `held` overwrote a different closure that was never invoked
\*   deferredRuns    how often `held` has been invoked (counted up to 2)
\*   dismissed       the auth modal was closed or cancelled while `held` was stored
\*   autoRetries     startRecording calls made by selectSource (counted up to 2)
\*   stopWhileConnecting  stopStreaming was called while a start was still
\*                   connecting, and startStreaming has not been called since
\*   exported        the latest file a transcript export has produced
HistAfter(h, calls) ==
  IF calls = <<>> THEN h
  ELSE
    LET c == Head(calls)
        h1 == CASE c.fn = "Recorder.start" /\ c.ok ->
                     [h EXCEPT !.lastRecorderOp = "start"]
                [] c.fn = "Recorder.stop" /\ c.ok ->
                     [h EXCEPT !.lastRecorderOp = "stop"]
                [] c.fn = "requireAuth" ->
                     [h EXCEPT !.deferredRuns = 0, !.dismissed = FALSE,
                               !.replaced = (h.held # NoAction /\ h.held # ActionOf(c)),
                               !.held = ActionOf(c)]
                [] c.fn = "authClose" ->
                     [h EXCEPT !.dismissed = (h.held # NoAction)]
                [] c.fn = "postAuthAction" ->
                     [h EXCEPT !.deferredRuns = IF @ < 2 THEN @ + 1 ELSE @,
                               !.held = NoAction]
                [] c.fn = "autoRetry" ->
                     [h EXCEPT !.autoRetries = IF @ < 2 THEN @ + 1 ELSE @]
                [] c.fn = "stopStreaming" /\ c.arg = "connecting" ->
                     [h EXCEPT !.stopWhileConnecting = TRUE]
                [] c.fn = "startStreaming" ->
                     [h EXCEPT !.stopWhileConnecting = FALSE]
                [] c.fn = "Transcript.downloadFile" ->
                     [h EXCEPT !.exported =
                        [format |-> c.arg, from |-> c.from, at |-> c.n,
                         content |-> c.content]]
                [] OTHER -> h
    IN HistAfter(h1, Tail(calls))

\* the handler that ran from World to w has finished (or has suspended)
Commit(w, op) ==
  /\ app' = w.app
  /\ recorder' = w.recorder
  /\ streamer' = w.streamer
  /\ transcript' = w.transcript
  /\ chat' = w.chat
  /\ ai' = w.ai
  /\ dom' = w.dom
  /\ last' = [op |-> op, notices |-> w.out.notices, calls |-> w.out.calls]
  /\ hist' = HistAfter(hist, w.out.calls)

\* who can raise a command: the button when it is enabled, the keyboard
\* shortcut (UI.toggleRecording / UI.toggleStreaming pick start or stop from
\* the controller's flag), a voice command while the interpreter is enabled
MayIssue(origin, buttonDisabled, keyPicksIt) ==
  \/ origin = "ui" /\ ~buttonDisabled
  \/ origin = "key" /\ keyPicksIt
  \/ origin = "voice" /\ ai.isEnabled /\ ai.recognition = "running"

----------------------------------------------------------------------------
(* Actions: recording *)

StartRecording ==
  \E origin \in Origins, mr \in MediaRecorderOutcomes :
    /\ MayIssue(origin, dom.startRecordingDisabled, ~app.isRecording)
    /\ Commit(startRecording(World, mr), "startRecording")
    /\ UNCHANGED pending

StopRecording ==
  \E origin \in Origins, stopThrows \in BOOLEAN :
    /\ MayIssue(origin, dom.stopRecordingDisabled, app.isRecording)
    /\ Commit(stopRecording(World, stopThrows), "stopRecording")
    /\ UNCHANGED pending

\* the tracks of the stream being recorded end (the user stops sharing, the
\* device is unplugged): the MediaRecorder goes inactive by itself
TracksEnded ==
  /\ recorder.mediaRecorder.state = "recording"
  /\ Commit([World EXCEPT !.recorder.mediaRecorder.state = "inactive"],
            "tracksEnded")
  /\ UNCHANGED pending

----------------------------------------------------------------------------
\* the Transcript recognizer's onend after recognition.stop()
TranscriptRecognitionEnd ==
  /\ transcript.recognition = "stopping"
  /\ Commit([World EXCEPT !.transcript.recognition = "idle"],
            "recognition.onend")
  /\ UNCHANGED pending

----------------------------------------------------------------------------
(* Actions: source selection *)

ShowSourceModal ==
  /\ ~dom.sourcesModal
  /\ Commit(showSourceModal(World), "showSourceModal")
  /\ UNCHANGED pending

HideSourceModal ==
  /\ dom.sourcesModal
  /\ Commit(hideSourceModal(World), "hideSourceModal")
  /\ UNCHANGED pending

\* the streams whose tracks are live: every stream the capture devices have
\* handed out.  The one track.stop() of the program is in Recorder.cleanup,
\* which nothing calls; selectSource only overwrites Recorder.stream.
LiveStreams == 1..pending.streams

\* a click on a source item: Recorder.selectSource suspends in
\* getUserMedia / getDisplayMedia
SelectSource ==
  /\ dom.sourcesModal
  /\ pending.selects < MaxInFlight
  /\ pending.streams + pending.selects < MaxSources
  /\ pending' = [pending EXCEPT !.selects = @ + 1]
  /\ Commit(Call(World, "selectSource", TRUE, ""), "selectSource.call")

SelectSourceResolved ==
  \E mr \in MediaRecorderOutcomes :
    /\ pending.selects > 0
    /\ pending' = [pending EXCEPT !.selects = @ - 1, !.streams = @ + 1]
    /\ Commit(selectSource_resolved(World, pending.streams + 1, mr),
              "selectSource")

SelectSourceRejected ==
  /\ pending.selects > 0
  /\ pending' = [pending EXCEPT !.selects = @ - 1]
  /\ Commit(selectSource_rejected(World), "selectSource")

----------------------------------------------------------------------------
(* Actions: streaming *)

PlatformChange ==
  \E platform \in PlatformChoices :
    /\ platform # dom.streamPlatform
    /\ Commit(handlePlatformChange(World, platform), "handlePlatformChange")
    /\ UNCHANGED pending

SaveSettings ==
  \E streamKey \in StreamKeys :
    /\ streamKey # streamer.settings.streamKey
    /\ Commit(Notice(Streamer_updateSettings(World, streamKey), "success",
                     "Settings saved successfully"),
              "saveSettings")
    /\ UNCHANGED pending

StartStreaming ==
  \E origin \in Origins :
    /\ MayIssue(origin, dom.startStreamDisabled, ~app.isStreaming)
    /\ LET r == startStreaming_call(World) IN
         /\ r.suspended => pending.streamStarts < MaxInFlight
         /\ pending' = IF r.suspended
                       THEN [pending EXCEPT !.streamStarts = @ + 1]
                       ELSE pending
         /\ Commit(r.w, "startStreaming")

StartStreamingResume ==
  /\ pending.streamStarts > 0
  /\ pending' = [pending EXCEPT !.streamStarts = @ - 1]
  /\ Commit(startStreaming_resume(World), "startStreaming.resume")

StopStreaming ==
  \E origin \in Origins :
    /\ MayIssue(origin, dom.stopStreamDisabled, app.isStreaming)
    /\ LET r == stopStreaming_call(World) IN
         /\ r.suspended => pending.streamStops < MaxInFlight
         /\ pending' = IF r.suspended
                       THEN [pending EXCEPT !.streamStops = @ + 1]
                       ELSE pending
         /\ Commit(r.w, "stopStreaming")

StopStreamingResume ==
  /\ pending.streamStops > 0
  /\ pending' = [pending EXCEPT !.streamStops = @ - 1]
  /\ Commit(stopStreaming_resume(World), "stopStreaming.resume")

----------------------------------------------------------------------------
(* Actions: chat, AI toggle, auth *)

SendChatMessage ==
  \E message \in ChatTexts :
    /\ Len(chat.messages) < MaxMessages
    /\ Commit(sendChatMessage(World, message), "sendChatMessage")
    /\ UNCHANGED pending

\* the timer set by Chat.simulateMessageResponse fires
ViewerReply ==
  /\ chat.replies > 0
  /\ Len(chat.messages) < MaxMessages
  /\ Commit(Chat_simulatedResponse(World), "viewerReply")
  /\ UNCHANGED pending

ToggleAICommands ==
  /\ dom.listeners
  /\ Commit(toggleAICommands(World, ~dom.aiCommands), "toggleAICommands")
  /\ UNCHANGED pending

\* the navigation bar's sign-in / sign-up buttons, shown while signed out
ShowAuthModal ==
  /\ dom.listeners
  /\ app.auth = NoAuth
  /\ ~dom.authModal
  /\ Commit(showAuthModal(World), "showAuthModal")
  /\ UNCHANGED pending

\* the auth modal's close and cancel buttons
HideAuthModal ==
  /\ dom.authModal
  /\ Commit(Call(hideAuthModal(World), "authClose", TRUE, ""),
            "hideAuthModal")
  /\ UNCHANGED pending

HandleAuthSignIn ==
  \E email \in Emails \cup {""}, password \in Passwords \cup {""},
     mr \in MediaRecorderOutcomes :
    /\ dom.authModal
    /\ Commit(handleAuthSignIn(World, email, password, mr), "handleAuthSignIn")
    /\ UNCHANGED pending

HandleAuthSignUp ==
  \E email \in Emails \cup {""}, password \in Passwords \cup {""},
     mr \in MediaRecorderOutcomes :
    /\ dom.authModal
    /\ Commit(handleAuthSignUp(World, email, password, mr), "handleAuthSignUp")
    /\ UNCHANGED pending

Logout ==
  /\ dom.listeners
  /\ app.auth # NoAuth
  /\ Commit(logout(World), "logout")
  /\ UNCHANGED pending

----------------------------------------------------------------------------
(* Actions: quick actions, the voice interpreter, the transcript recognizer *)

\* the mute button
ToggleMute ==
  /\ Commit(toggleMute(World), "toggleMute")
  /\ UNCHANGED pending

\* the screenshot button calls StreamStudio.takeScreenshot, the F4 shortcut
\* calls UI.takeScreenshot, which goes to the Recorder directly
TakeScreenshot ==
  \E origin \in {"ui", "key"} :
    /\ Commit(IF origin = "ui" THEN takeScreenshot(World)
              ELSE Recorder_takeScreenshot(World),
              "takeScreenshot")
    /\ UNCHANGED pending

\* the clear-chat button
ClearChat ==
  \E confirmed \in BOOLEAN :
    /\ chat.messages # <<>>
    /\ Commit(Chat_clearChat(World, confirmed), "clearChat")
    /\ UNCHANGED pending

\* a handler that parks at an await is added to what is in flight
MayPark(suspended) ==
  /\ suspended = "streamStart" => pending.streamStarts < MaxInFlight
  /\ suspended = "streamStop" => pending.streamStops < MaxInFlight
  /\ suspended = "remote" => Len(pending.aiRequests) < MaxInFlight

\* (a request to the classifier is kept with the number of commands that had
\* been logged when it was sent)
Parked(p, suspended, utterance) ==
  CASE suspended = "streamStart" -> [p EXCEPT !.streamStarts = @ + 1]
    [] suspended = "streamStop" -> [p EXCEPT !.streamStops = @ + 1]
    [] suspended = "remote" ->
         [p EXCEPT !.aiRequests =
                     Append(@, [utterance |-> utterance, sentAt |-> ai.logged])]
    [] OTHER -> p

\* AI.recognition.onresult while the interpreter is enabled: one of `raws`
\* heard with one of `confidences`, while fewer than `limit` commands have
\* been logged
RecognitionResultOf(raws, confidences, limit) ==
  \E raw \in raws, confidence \in confidences, env \in CommandEnvs :
    /\ ai.recognition = "running"
    /\ ai.logged < limit
    /\ LET r == AI_handleRecognitionResult(World, raw, confidence, env) IN
         /\ MayPark(r.suspended)
         /\ pending' = Parked(pending, r.suspended, ToLowerTrim(raw))
         /\ Commit(r.w, "recognition.onresult")

RecognitionResult == RecognitionResultOf(RawUtterances, Confidences, MaxCommands)

\* the command log being filled: one command over and over
RecognitionBurst == RecognitionResultOf({"switch scene"}, {90}, MaxCommandBurst)

\* the voice recognizer ends: after stop(), or by itself on silence or on an
\* error (the browser reports the error, then the end)
AIRecognitionEnd ==
  \E error \in RecognitionErrors :
    /\ ai.recognition \in {"running", "stopping"}
    /\ error # "" => ai.recognition = "running"
    /\ LET r == AI_onEnd(World, error) IN
         /\ r.scheduled => pending.aiRestarts < MaxInFlight
         /\ pending' = [pending EXCEPT !.aiRestarts =
                                         IF r.scheduled THEN @ + 1 ELSE @]
         /\ Commit(r.w, "ai.recognition.onend")

\* a restart timer set by onend fires, 100 ms later
AIRestart ==
  /\ pending.aiRestarts > 0
  /\ pending' = [pending EXCEPT !.aiRestarts = @ - 1]
  /\ Commit(AI_restartCallback(World), "restartCallback")

\* sendToAI settles for one of the utterances in flight with one of
\* `actions`, while fewer than `limit` commands have been logged
RemoteResponseOf(actions, limit) ==
  \E i \in 1..Len(pending.aiRequests), action \in actions,
     confidence \in RemoteConfidences, env \in CommandEnvs :
    /\ action # "" => ai.logged < limit
    /\ LET r == AI_onRemoteResponse(World, pending.aiRequests[i].utterance, action,
                                    confidence, env)
           rest == [pending EXCEPT !.aiRequests =
                      SubSeq(@, 1, i - 1) \o SubSeq(@, i + 1, Len(@))]
       IN /\ MayPark(r.suspended)
          /\ pending' = Parked(rest, r.suspended, "")
          /\ Commit(r.w, "remoteResponse")

RemoteResponse == RemoteResponseOf(RemoteActions, MaxCommands)

\* two commands whose order in the log is observed: one utterance that no
\* table matches and one that the direct table matches
RecognitionOrdered ==
  RecognitionResultOf({"hello everyone", "switch scene"}, {90},
                      MaxOrderedCommands)

RemoteOrdered == RemoteResponseOf({"", "toggleMute"}, MaxOrderedCommands)

\* Transcript.recognition.onresult for an event whose interim results add
\* up to one of interims and whose final results to one of finals, while the
\* recognizer is in one of states and fewer than limit segments are held
TranscriptResultOf(interims, finals, states, limit) ==
  \E interim \in interims, final \in finals :
    /\ transcript.recognition \in states
    /\ interim # "" \/ final # ""
    /\ Len(transcript.transcript) < limit
    /\ Commit(Transcript_handleRecognitionResult(World, interim, final),
              "transcript.onresult")
    /\ UNCHANGED pending

\* Transcript.recognition.onresult while the recognizer runs
TranscriptResult ==
  TranscriptResultOf({"", "hel"}, {"", "hello world"}, {"running"}, MaxSegments)

\* the same for more texts, and also for the results a recognizer still
\* delivers after stop(), until it ends
TranscriptHeard ==
  TranscriptResultOf({"", " ", "hel"}, {"", " ", " hello world "},
                     {"running", "stopping"}, MaxHeard)

\* the chat log being filled: one text over and over
SendChatBurst ==
  /\ chat.nextId < MaxChatBurst
  /\ Commit(sendChatMessage(World, "hello"), "sendChatMessage")
  /\ UNCHANGED pending

\* a simulated viewer reply arrives while the chat log is being filled
ViewerReplyBurst ==
  /\ chat.replies > 0
  /\ chat.nextId < MaxChatBurst
  /\ Cardinality({i \in 1..Len(chat.messages) :
                    chat.messages[i].type = "viewer"}) < MaxReplies
  /\ Commit(Chat_simulatedResponse(World), "viewerReply")
  /\ UNCHANGED pending

----------------------------------------------------------------------------
\* the recording axis: start, stop, and the source selection it depends on
RecordingActions ==
  \/ StartRecording
  \/ StopRecording
  \/ TracksEnded
  \/ TranscriptRecognitionEnd

SourceActions ==
  \/ ShowSourceModal
  \/ HideSourceModal
  \/ SelectSource
  \/ SelectSourceResolved
  \/ SelectSourceRejected

StreamingActions ==
  \/ PlatformChange
  \/ SaveSettings
  \/ StartStreaming
  \/ StartStreamingResume
  \/ StopStreaming
  \/ StopStreamingResume

AuthActions ==
  \/ ShowAuthModal
  \/ HideAuthModal
  \/ HandleAuthSignIn
  \/ HandleAuthSignUp
  \/ Logout

ChatActions ==
  \/ SendChatMessage
  \/ ViewerReply

\* the recording axis with source selection and the auth gate; no streaming
Next ==
  \/ RecordingActions
  \/ SourceActions
  \/ AuthActions
  \/ ToggleAICommands

InitRecording ==
  Init /\ streamer.settings.streamKey = "" /\ ai.settings.apiKey = ""

Spec == InitRecording /\ [][Next]_vars

\* both axes for a signed-in user
NextStreaming ==
  \/ StreamingActions
  \/ SourceActions
  \/ StartRecording
  \/ StopRecording
  \/ ToggleAICommands

InitStreaming ==
  /\ Init
  /\ app.auth # NoAuth
  /\ transcript.recognition = "idle"
  /\ ai.settings.apiKey = ""

SpecStreaming == InitStreaming /\ [][NextStreaming]_vars

\* the auth gate and the three gated actions
NextAuth ==
  \/ AuthActions
  \/ SendChatMessage
  \/ ToggleAICommands
  \/ StartRecording
  \/ SourceActions

InitAuth ==
  /\ Init
  /\ streamer.settings.streamKey = ""
  /\ transcript.recognition = "idle"
  /\ ai.settings.apiKey = ""

SpecAuth == InitAuth /\ [][NextAuth]_vars

\* the voice interpreter on top of a signed-in session with a stream key
\* (a stream is started here by a voice command only, and MaxCommands ends
\* the behaviour before a second command could stop it: no stop is ever
\* parked, so no stop resumes)
NextVoice ==
  \/ RecognitionResult
  \/ RemoteResponse
  \/ ToggleAICommands
  \/ ToggleMute
  \/ TakeScreenshot
  \/ ShowSourceModal
  \/ SelectSource
  \/ SelectSourceResolved
  \/ PlatformChange
  \/ StartStreamingResume

InitVoice ==
  /\ Init
  /\ app.auth # NoAuth
  /\ streamer.settings.streamKey # ""
  /\ transcript.recognition = "idle"

SpecVoice == InitVoice /\ [][NextVoice]_vars

\* the voice recognizer's loop: switched on and off, ending and restarting,
\* hearing utterances in between
NextLoop ==
  \/ ToggleAICommands
  \/ AIRecognitionEnd
  \/ AIRestart
  \/ RecognitionResult
  \/ Logout
  \/ ShowAuthModal
  \/ HandleAuthSignIn

InitLoop ==
  /\ Init
  /\ streamer.settings.streamKey = ""
  /\ transcript.recognition = "idle"
  /\ ai.settings.apiKey = ""

SpecLoop == InitLoop /\ [][NextLoop]_vars

\* the same with the scheduling the browser guarantees: a timer that was set
\* fires
FairLoop == SpecLoop /\ WF_vars(AIRestart)

\* the voice interpreter with a remote classifier, two commands long
NextOrder ==
  \/ ToggleAICommands
  \/ RecognitionOrdered
  \/ RemoteOrdered
  \/ AIRecognitionEnd
  \/ AIRestart

InitOrder ==
  /\ Init
  /\ app.auth # NoAuth
  /\ streamer.settings.streamKey = ""
  /\ transcript.recognition = "idle"
  /\ ai.settings.apiKey # ""

SpecOrder == InitOrder /\ [][NextOrder]_vars

\* the chat log and the command log being filled.  The two logs share no
\* state, so a behaviour fills them one after the other.
NextLogs ==
  \/ (chat.nextId \in {0, MaxChatBurst} /\ ToggleAICommands)
  \/ (chat.nextId \in {0, MaxChatBurst} /\ RecognitionBurst)
  \/ (ai.logged = 0 /\ ~ai.isEnabled /\ SendChatBurst)
  \/ (ai.logged = 0 /\ ~ai.isEnabled /\ ViewerReplyBurst)

InitLogs ==
  /\ Init
  /\ app.auth # NoAuth
  /\ streamer.settings.streamKey = ""
  /\ transcript.recognition = "idle"
  /\ ai.settings.apiKey = ""

SpecLogs == InitLogs /\ [][NextLogs]_vars

\* a recording whose transcript keeps growing
NextTranscript ==
  \/ ShowSourceModal
  \/ SelectSource
  \/ SelectSourceResolved
  \/ StartRecording
  \/ StopRecording
  \/ TranscriptResult
  \/ TranscriptRecognitionEnd

SpecTranscript == InitLogs /\ [][NextTranscript]_vars

----------------------------------------------------------------------------
(* Claims *)

\* C1: the controller's isRecording is true exactly when the most recent
\* Recorder.start that succeeded has not been followed by a Recorder.stop
\* that succeeded, whatever calls failed in between.
C1_RecordingStateConsistency ==
  app.isRecording <=> (hist.lastRecorderOp = "start")

\* a start fails after a recording was started and stopped
C1_Witness ==
  /\ hist.lastRecorderOp = "stop"
  /\ last.op = "startRecording"
  /\ FailedCall(last, "Recorder.start")
  /\ ~app.isRecording

\* C2 (as claimed): once stopRecording has run the controller is not
\* recording, also when Recorder.stop() threw.
C2_StopAlwaysReachesIdle ==
  last.op = "stopRecording" => ~app.isRecording

\* C3: when Streamer.stop() throws inside stopStreaming, the controller is
\* not streaming when the call returns and exactly one error was shown.
C3_StreamStopFailure ==
  (last.op = "stopStreaming" /\ FailedCall(last, "Streamer.stop"))
    => (~app.isStreaming /\ Cardinality(Errors(last)) = 1)

\* a stop is rejected while a start is still connecting
C3_Witness ==
  /\ last.op = "stopStreaming"
  /\ FailedCall(last, "Streamer.stop")
  /\ pending.streamStarts > 0

StartFailure(tr) ==
  \/ FailedCall(tr, "Recorder.start")
  \/ FailedCall(tr, "Streamer.start")
  \/ FailedCall(tr, "Recorder.selectSource")

\* C4: a handler in which Recorder.selectSource, Recorder.start or
\* Streamer.start throws leaves isRecording and isStreaming as they were,
\* leaves currentSource as it was before the failed attempt (the stream just
\* acquired, when the attempt is the retry made by selectSource), and shows
\* an error.
C4_FailedStartLeavesState ==
  [][StartFailure(last') =>
       /\ app'.isRecording = app.isRecording
       /\ app'.isStreaming = app.isStreaming
       /\ app'.currentSource =
            IF OkCall(last', "Recorder.selectSource")
            THEN pending'.streams ELSE app.currentSource
       /\ Errors(last') # {}]_vars

\* Streamer.start is refused while a recording is running
C4_Witness ==
  /\ last.op = "startStreaming"
  /\ FailedCall(last, "Streamer.start")
  /\ app.isRecording
  /\ ~app.isStreaming

\* C5 (as claimed): in any state with no current source a startRecording call
\* marks the start as pending and does not call Recorder.start, and
\* selectSource retries at most once.
C5_AnyStateMarksPending ==
  /\ (last.op = "startRecording" /\ app.currentSource = NoSource)
       => (app.startAfterSource /\ ~Called(last, "Recorder.start"))
  /\ hist.autoRetries <= 1

\* C5 (amended): a startRecording call made with an auth identity and no
\* current source sets startAfterSource and does not call Recorder.start; a
\* call made without an identity is deflected to the auth gate and leaves
\* startAfterSource alone.  A successful selectSource calls startRecording
\* once when it finds startAfterSource set and not at all otherwise, so the
\* retry happens at most once however many starts were requested.
C5_DeferredStartRetry ==
  [][/\ \A c \in Range(last'.calls) :
          (c.fn = "startRecording" /\ app'.currentSource = NoSource) =>
             IF c.authed
             THEN app'.startAfterSource /\ ~Called(last', "Recorder.start")
             ELSE /\ app'.startAfterSource = app.startAfterSource
                  /\ Called(last', "requireAuth")
                  /\ ~Called(last', "Recorder.start")
     /\ (last'.op = "selectSource" /\ OkCall(last', "Recorder.selectSource")) =>
          CountCalls(last', "startRecording") =
             IF app.startAfterSource THEN 1 ELSE 0
     /\ hist'.autoRetries <= 1]_vars

\* the second source arrives after the retry has been made: no second retry
C5_Witness ==
  /\ hist.autoRetries = 1
  /\ last.op = "selectSource"
  /\ OkCall(last, "Recorder.selectSource")
  /\ ~Called(last, "startRecording")

\* C6: a selectSource that succeeds leaves startAfterSource cleared, whatever
\* the retried start did; a selectSource that fails leaves it as it was.
C6_PendingFlagCleared ==
  [][/\ (last'.op = "selectSource" /\ OkCall(last', "Recorder.selectSource"))
          => ~app'.startAfterSource
     /\ (last'.op = "selectSource" /\ FailedCall(last', "Recorder.selectSource"))
          => app'.startAfterSource = app.startAfterSource]_vars

\* the retry was deflected to the auth gate (the user had logged out)
C6_Witness ==
  /\ last.op = "selectSource"
  /\ Called(last, "autoRetry")
  /\ Called(last, "requireAuth")
  /\ ~app.startAfterSource

\* C7: a gated attempt leaves exactly that attempt in postAuthAction, so a
\* second attempt replaces the first; a sign-in invokes the held closure and
\* nothing else.
C7_OnlyLastDeferredRuns ==
  [][/\ \A c \in Range(last'.calls) :
          c.fn = "requireAuth" => app'.postAuthAction = ActionOf(c)
     /\ \A c \in Range(last'.calls) :
          c.fn = "postAuthAction" =>
            /\ ActionOf(c) = app.postAuthAction
            /\ CountCalls(last', "postAuthAction") = 1
            /\ CountCalls(last', "startRecording") =
                 IF c.kind = "startRecording" THEN 1 ELSE 0
            /\ CountCalls(last', "Chat.sendMessage") =
                 IF c.kind = "sendMessage" THEN 1 ELSE 0
            /\ \A d \in Range(last'.calls) :
                 d.fn = "Chat.sendMessage" => d.arg = c.arg
            /\ CountCalls(last', "AI.setEnabled") =
                 IF c.kind = "enableAI" THEN 1 ELSE 0]_vars

\* the closure invoked at sign-in had replaced an earlier, different one
C7_Witness ==
  /\ hist.replaced
  /\ Called(last, "postAuthAction")
  /\ hist.deferredRuns = 1

\* the submission passed the check of its two fields (the confirmation that
\* follows is not shown when the deferred closure throws)
SubmissionSucceeded(tr) ==
  /\ tr.op \in {"handleAuthSignIn", "handleAuthSignUp"}
  /\ \A n \in Range(tr.notices) : n.text # "Please enter email and password"

\* C8: a successful sign-in or sign-up stores the identity, invokes the held
\* closure once if there is one, and leaves none held; no closure is invoked
\* outside a successful submission, and none is invoked twice.
C8_DeferredRunsOnce ==
  [][/\ SubmissionSucceeded(last') =>
          /\ app'.auth \in Emails
          /\ app'.postAuthAction = NoAction
          /\ CountCalls(last', "postAuthAction") =
               IF app.postAuthAction # NoAction THEN 1 ELSE 0
     /\ Called(last', "postAuthAction") => SubmissionSucceeded(last')
     /\ hist'.deferredRuns <= 1]_vars

\* a second submission finds nothing to run
C8_Witness ==
  /\ last.op = "handleAuthSignUp"
  /\ SubmissionSucceeded(last)
  /\ ~Called(last, "postAuthAction")
  /\ hist.deferredRuns = 1

\* C9 (as claimed): closing or cancelling the auth modal discards the
\* deferred action, and a closure that was held when the modal was dismissed
\* is never invoked.
C9_DismissalDiscards ==
  /\ last.op = "hideAuthModal" => app.postAuthAction = NoAction
  /\ Called(last, "postAuthAction") => ~hist.dismissed

\* C10: Recorder.start and Chat.sendMessage are only ever entered with an
\* auth identity present.
C10_GatedCallsAuthenticated ==
  \A c \in Range(last.calls) :
    c.fn \in {"Recorder.start", "Chat.sendMessage"} => c.authed

\* Recorder.start is reached through the deferred post-auth action
C10_Witness ==
  /\ Called(last, "postAuthAction")
  /\ OkCall(last, "Recorder.start")

\* C11: a startStreaming call made with no platform selected or with no
\* current source shows one error, does not reach Streamer.start, parks
\* nothing and leaves the controller, the Streamer and the Recorder as they
\* were.
C11_StartStreamingValidation ==
  [][(last'.op = "startStreaming"
        /\ (dom.streamPlatform = "" \/ app.currentSource = NoSource)) =>
       /\ Cardinality(Errors(last')) = 1
       /\ ~Called(last', "Streamer.start")
       /\ app' = app
       /\ streamer' = streamer
       /\ recorder' = recorder
       /\ pending' = pending]_vars

\* a platform and a stream key are set, the source is missing
C11_Witness ==
  /\ last.op = "startStreaming"
  /\ dom.streamPlatform # ""
  /\ streamer.settings.streamKey # ""
  /\ app.currentSource = NoSource
  /\ Errors(last) # {}
  /\ ~Called(last, "Streamer.start")

\* C12 (as claimed): a startStreaming or stopStreaming call made while a
\* streaming start or stop is still in flight is refused with an error and
\* parks nothing, so no two starts and no two stops are in flight together.
C12_OverlapRejected ==
  [][(last'.op \in {"startStreaming", "stopStreaming"}
        /\ pending.streamStarts + pending.streamStops > 0) =>
       /\ Errors(last') # {}
       /\ pending' = pending]_vars

\* C13 (as claimed): when stopStreaming was called while a start was still
\* connecting and no start was asked for afterwards, the controller is not
\* streaming once nothing is in flight any more.
C13_StopWhileConnectingEndsIdle ==
  (hist.stopWhileConnecting
     /\ pending.streamStarts = 0 /\ pending.streamStops = 0)
    => ~app.isStreaming

\* the voice command of this step dispatched `eventName`
Dispatched(tr, eventName) ==
  \E c \in Range(tr.calls) : c.fn = "dispatchEvent" /\ c.arg = eventName

\* C14 (as claimed): a voice command that resolves to toggleMute leaves the
\* audio tracks and the mute button as the mute button pressed in the same
\* state would, and shows the same notices.
C14_VoiceMuteEqualsUIMute ==
  [][(last'.op = "recognition.onresult"
        /\ Dispatched(last', "ai-toggle-mute")) =>
       /\ recorder' = toggleMute(World).recorder
       /\ dom' = toggleMute(World).dom
       /\ last'.notices = toggleMute(World).out.notices]_vars

\* the operation the UI control of a vocabulary action calls: the recording,
\* streaming, screenshot and mute buttons call the StreamStudio method of the
\* same name, the clear-chat button calls Chat.clearChat; nothing in the
\* program switches a scene
ControllerOp(action) ==
  IF action = "clearChat" THEN "Chat.clearChat" ELSE action

\* C15 (as claimed): a voice step that resolved one of the eight vocabulary
\* actions logs exactly one command and calls the operation of that action's
\* UI control exactly once.
C15_VoiceActionLoggedAndForwarded ==
  [][\A c \in Range(last'.calls) :
       (c.fn = "AI.logCommand" /\ c.arg \in Vocabulary) =>
         /\ CountCalls(last', "AI.logCommand") = 1
         /\ CountCalls(last', ControllerOp(c.arg)) = 1]_vars

\* C16: the chat log never holds more than maxMessages messages and the
\* command log never more than maxHistorySize entries; an append to a full
\* log drops the oldest item, keeps the others in order and puts the new
\* item last.
C16_BoundedFifoLogs ==
  [][/\ Len(chat'.messages) <= maxMessages
     /\ Len(ai'.commandHistory) <= maxHistorySize
     /\ \A c \in Range(last'.calls) :
          /\ (c.fn = "Chat.addMessage" /\ Len(chat.messages) = maxMessages) =>
               /\ Len(chat'.messages) = maxMessages
               /\ SubSeq(chat'.messages, 1, maxMessages - 1) = Tail(chat.messages)
               /\ chat'.messages[maxMessages].id = c.n
               /\ chat'.messages[maxMessages].text = c.arg
          /\ (c.fn = "AI.logCommand" /\ Len(ai.commandHistory) = maxHistorySize) =>
               /\ Len(ai'.commandHistory) = maxHistorySize
               /\ SubSeq(ai'.commandHistory, 1, maxHistorySize - 1)
                    = Tail(ai.commandHistory)
               /\ ai'.commandHistory[maxHistorySize].timestamp = c.n
               /\ ai'.commandHistory[maxHistorySize].action = c.arg]_vars

\* both logs are full and each has lost its oldest items
C16_Witness ==
  /\ Len(chat.messages) = maxMessages
  /\ chat.nextId > maxMessages
  /\ chat.messages[1].id = chat.nextId - maxMessages + 1
  /\ chat.messages[maxMessages].id = chat.nextId
  /\ Len(ai.commandHistory) = maxHistorySize
  /\ ai.logged > maxHistorySize
  /\ ai.commandHistory[1].timestamp = ai.logged - maxHistorySize + 1
  /\ ai.commandHistory[maxHistorySize].timestamp = ai.logged

\* C17 (as claimed, for any capacity below MaxSegments): the transcript's
\* segment history stays shorter than MaxSegments, however many segments one
\* recording commits.
C17_TranscriptHistoryBounded ==
  Len(transcript.transcript) < MaxSegments

\* the utterance of this step was heard with a confidence below the
\* sensitivity in force when it arrived
HeardBelowSensitivity(tr, sensitivity) ==
  \E c \in Range(tr.calls) :
    c.fn = "AI.handleRecognitionResult" /\ c.n < sensitivity

\* C18: an utterance heard with a confidence below settings.sensitivity is
\* not logged, dispatches no event, is not sent to the remote classifier,
\* calls nothing else and changes no state.
C18_BelowSensitivityIgnored ==
  [][(last'.op = "recognition.onresult"
        /\ HeardBelowSensitivity(last', ai.settings.sensitivity)) =>
       /\ Len(last'.calls) = 1
       /\ last'.notices = <<>>
       /\ ai' = ai
       /\ app' = app
       /\ recorder' = recorder
       /\ streamer' = streamer
       /\ chat' = chat
       /\ transcript' = transcript
       /\ dom' = dom
       /\ pending' = pending]_vars

\* with an API key configured, "start recording" is heard with confidence 0.5
C18_Witness ==
  /\ last.op = "recognition.onresult"
  /\ ai.settings.apiKey # ""
  /\ \E c \in Range(last.calls) :
       /\ c.fn = "AI.handleRecognitionResult"
       /\ c.arg = "start recording"
       /\ c.n < ai.settings.sensitivity
  /\ ~Called(last, "AI.logCommand")
  /\ ~Called(last, "dispatchEvent")

\* the actions of the entries of `table` whose phrase the utterance contains
HitActions(table, utterance) ==
  {table[i].action : i \in {k \in 1..Len(table) :
                               Includes(utterance, table[k].command)}}

\* nothing but `last` and the list of requests in flight changes in this step
OnlyHeard ==
  /\ app' = app
  /\ recorder' = recorder
  /\ streamer' = streamer
  /\ chat' = chat
  /\ transcript' = transcript
  /\ ai' = ai
  /\ dom' = dom

\* C19: an accepted utterance that contains a direct phrase is logged as a
\* direct match with that phrase's action, whatever fuzzy phrases it also
\* contains; one that contains fuzzy phrases only is logged as a fuzzy match;
\* the remote classifier is asked exactly when no phrase of either table is
\* contained and an API key is set; and when nothing resolves (no phrase and
\* no key, or the classifier fails or answers without an action) nothing is
\* logged, no event is dispatched and no state changes.
C19_ResolutionOrder ==
  [][/\ \A c \in Range(last'.calls) :
          (c.fn = "AI.handleRecognitionResult"
             /\ c.n >= ai.settings.sensitivity) =>
            LET u == ToLowerTrim(c.arg)
                direct == HitActions(Commands, u)
                fuzzy == HitActions(FuzzyCommands, u)
                entry == ai'.commandHistory[Len(ai'.commandHistory)]
            IN /\ direct # {} =>
                    /\ CountCalls(last', "AI.logCommand") = 1
                    /\ entry.type = "direct"
                    /\ entry.action \in direct
                    /\ Dispatched(last', EventOf(entry.action))
               /\ (direct = {} /\ fuzzy # {}) =>
                    /\ CountCalls(last', "AI.logCommand") = 1
                    /\ entry.type = "fuzzy"
                    /\ entry.action \in fuzzy
                    /\ Dispatched(last', EventOf(entry.action))
               /\ Called(last', "AI.sendToAI") <=>
                    (direct = {} /\ fuzzy = {} /\ ai.settings.apiKey # "")
               /\ (direct = {} /\ fuzzy = {}) =>
                    /\ ~Called(last', "AI.logCommand")
                    /\ ~Called(last', "dispatchEvent")
                    /\ last'.notices = <<>>
                    /\ OnlyHeard
               /\ (direct = {} /\ fuzzy = {} /\ ai.settings.apiKey = "") =>
                    /\ Len(last'.calls) = 1
                    /\ pending' = pending
     /\ \A c \in Range(last'.calls) :
          (c.fn = "AI.remoteResponse" /\ c.arg = "") =>
            /\ Len(last'.calls) = 1
            /\ last'.notices = <<>>
            /\ OnlyHeard]_vars

\* "begin recording and clear chat" contains the fuzzy phrase "begin record"
\* and the direct phrase "clear chat": it is logged as a direct clearChat
C19_Witness ==
  /\ last.op = "recognition.onresult"
  /\ \E c \in Range(last.calls) :
       /\ c.fn = "AI.handleRecognitionResult"
       /\ HitActions(Commands, ToLowerTrim(c.arg)) = {"clearChat"}
       /\ "startRecording" \in HitActions(FuzzyCommands, ToLowerTrim(c.arg))
  /\ ai.commandHistory # <<>>
  /\ ai.commandHistory[Len(ai.commandHistory)].type = "direct"
  /\ ai.commandHistory[Len(ai.commandHistory)].action = "clearChat"
  /\ Dispatched(last, "ai-clear-chat")

\* C20: when the remote classifier answers with an action outside the
\* vocabulary, the answer is logged and nothing more: no event is dispatched,
\* no operation of the controller or of a subsystem is called, nothing is
\* parked, and the controller, the Recorder, the Streamer, the chat, the
\* transcript and the controls stay as they were.
C20_UnknownRemoteActionDiscarded ==
  [][\A c \in Range(last'.calls) :
       (c.fn = "AI.remoteResponse" /\ c.arg \notin Vocabulary \cup {""}) =>
         /\ ~Called(last', "dispatchEvent")
         /\ \A d \in Range(last'.calls) :
              d.fn \in {"AI.remoteResponse", "AI.logCommand"}
         /\ app' = app
         /\ recorder' = recorder
         /\ streamer' = streamer
         /\ chat' = chat
         /\ transcript' = transcript
         /\ dom' = dom
         /\ pending'.streamStarts = pending.streamStarts
         /\ pending'.streamStops = pending.streamStops]_vars

\* the classifier answered "shutdown" while a source was selected; the
\* answer was logged
C20_Witness ==
  /\ last.op = "remoteResponse"
  /\ \E c \in Range(last.calls) : c.fn = "AI.remoteResponse" /\ c.arg = "shutdown"
  /\ ai.commandHistory # <<>>
  /\ ai.commandHistory[Len(ai.commandHistory)].action = "shutdown"
  /\ app.currentSource # NoSource

\* the value asked for by the named call of this step, if there is one
Asked(tr, fn, value) ==
  \E c \in Range(tr.calls) : c.fn = fn /\ c.arg = value

\* C21 (as claimed): after a toggleAICommands request the interpreter's flag
\* has the requested value.
C21_FlagFollowsEveryRequest ==
  last.op = "toggleAICommands" =>
    /\ Asked(last, "toggleAICommands", "on") => ai.isEnabled
    /\ Asked(last, "toggleAICommands", "off") => ~ai.isEnabled

\* C21 (amended): AI.isEnabled changes only in AI.setEnabled and then has the
\* value of the call's argument; toggleAICommands hands the checkbox's value
\* to AI.setEnabled on every disable and on every enable made while signed
\* in, while an enable made while signed out is deferred to the auth gate and
\* leaves the interpreter as it was, the checkbox unchecked; and a repeated
\* setEnabled call leaves the flag and the recognizer as the first call did.
C21_FlagFollowsSetEnabled ==
  [][/\ Asked(last', "AI.setEnabled", "on") => ai'.isEnabled
     /\ Asked(last', "AI.setEnabled", "off") => ~ai'.isEnabled
     /\ ~Called(last', "AI.setEnabled") => ai'.isEnabled = ai.isEnabled
     /\ (Asked(last', "toggleAICommands", "on") /\ app.auth # NoAuth) =>
          /\ Asked(last', "AI.setEnabled", "on")
          /\ ai'.isEnabled
     /\ Asked(last', "toggleAICommands", "off") =>
          /\ Asked(last', "AI.setEnabled", "off")
          /\ ~ai'.isEnabled
     /\ (Asked(last', "toggleAICommands", "on") /\ app.auth = NoAuth) =>
          /\ ~Called(last', "AI.setEnabled")
          /\ ai' = ai
          /\ ~dom'.aiCommands
          /\ app'.postAuthAction = DeferredEnableAI
     /\ \A enabled \in BOOLEAN :
          LET once == AI_setEnabled(World, enabled)
              twice == AI_setEnabled([once EXCEPT !.out = EmptyOut], enabled)
          IN twice.ai = once.ai]_vars

\* the interpreter is switched on again before the recognizer has ended
\* after the last switch-off: start() throws, the flag is set all the same
C21_Witness ==
  /\ last.op = "toggleAICommands"
  /\ Asked(last, "toggleAICommands", "on")
  /\ FailedCall(last, "recognition.start")
  /\ ai.isEnabled
  /\ ai.recognition = "stopping"

\* C22: when the recognizer has ended (by itself, on silence, on a permission
\* or network error, or after stop()) while the interpreter is enabled, the
\* restart callback eventually calls recognition.start() unless the
\* interpreter is disabled first; and a restart callback that finds the
\* interpreter disabled, whenever it was disabled, does not call
\* recognition.start() and leaves the recognizer alone.
C22_LoopRestartsWhileEnabled ==
  /\ [][(last'.op = "restartCallback" /\ ~ai.isEnabled) =>
          /\ ~Called(last', "recognition.start")
          /\ ai' = ai]_vars
  /\ (last.op = "ai.recognition.onend" /\ ai.isEnabled)
       ~> \/ last.op = "restartCallback" /\ Called(last, "recognition.start")
          \/ ~ai.isEnabled

\* the recognizer ended on a network error and the callback started it again
C22_Witness ==
  /\ last.op = "restartCallback"
  /\ OkCall(last, "recognition.start")
  /\ ai.isEnabled
  /\ ai.recognition = "running"

\* C23: between handlers, an active transcript implies a recording
\* controller; Transcript.start is called only in a handler in which
\* Recorder.start succeeded and that leaves the controller recording; and a
\* handler that takes the controller out of recording calls Transcript.stop
\* and leaves the transcript inactive.
C23_TranscriptFollowsRecording ==
  /\ transcript.isActive => app.isRecording
  /\ [][/\ transcript'.isActive => app'.isRecording
        /\ Called(last', "Transcript.start") =>
             /\ OkCall(last', "Recorder.start")
             /\ app'.isRecording
        /\ (app.isRecording /\ ~app'.isRecording) =>
             /\ Called(last', "Transcript.stop")
             /\ ~transcript'.isActive]_vars

\* a recording with an active transcript was stopped: the transcript's
\* recognizer is on its way down
C23_Witness ==
  /\ last.op = "stopRecording"
  /\ Called(last, "Transcript.stop")
  /\ ~app.isRecording
  /\ ~transcript.isActive
  /\ transcript.recognition = "stopping"

\* C24 (as claimed): no step of a session without a clear action or a
\* teardown removes a committed segment: the committed sequence only grows
\* at its end.
C24_SegmentsOnlyAppended ==
  [][/\ Len(transcript'.transcript) >= Len(transcript.transcript)
     /\ SubSeq(transcript'.transcript, 1, Len(transcript.transcript))
          = transcript.transcript]_vars

\* the requests that left the list of requests in flight in this step
Settled ==
  {r \in Range(pending.aiRequests) :
     \E i \in 1..Len(pending.aiRequests) :
       /\ pending.aiRequests[i] = r
       /\ pending'.aiRequests = SubSeq(pending.aiRequests, 1, i - 1)
                                  \o SubSeq(pending.aiRequests, i + 1,
                                            Len(pending.aiRequests))}

\* C25 (as claimed, for the command log): when the classifier's answer for
\* an utterance is logged, the log holds no entry of an utterance that was
\* recognized later, that is, no table match logged after the request had
\* been sent.
C25_CommandLogInRecognitionOrder ==
  [][(last'.op = "remoteResponse" /\ Called(last', "AI.logCommand")) =>
       \A r \in Settled :
         \A k \in 1..Len(ai.commandHistory) :
           ~ /\ ai.commandHistory[k].type \in {"direct", "fuzzy"}
             /\ ai.commandHistory[k].timestamp > r.sentAt]_vars

\* C26 (as claimed): at most one capture stream is live, and it is the
\* controller's current source.
C26_AtMostOneLiveSource ==
  /\ Cardinality(LiveStreams) <= 1
  /\ \A stream \in LiveStreams : app.currentSource = stream

\* the status updates and confirmations a step displayed
Confirmations(tr) ==
  {i \in 1..Len(tr.notices) : tr.notices[i].kind \in {"status", "success"}}

\* the subsystem calls that carry out the state-changing commands
CommandCalls ==
  {"Recorder.start", "Recorder.stop", "Recorder.selectSource",
   "Streamer.start", "Streamer.stop"}

\* C27 (as claimed): a step in which a state-changing command fails shows
\* exactly one error notice, and a step in which one succeeds (streaming
\* commands succeed when the connection step resumes) shows exactly one
\* status update or confirmation.
C27_OneNoticePerCommand ==
  [][/\ (\E fn \in CommandCalls : FailedCall(last', fn)) =>
          Cardinality(Errors(last')) = 1
     /\ ((\E fn \in CommandCalls : OkCall(last', fn)
            /\ fn \notin {"Streamer.start", "Streamer.stop"})
         \/ last'.op \in {"startStreaming.resume", "stopStreaming.resume"}) =>
          Cardinality(Confirmations(last')) = 1]_vars

-----------------------------------------------------------------------------
(* Start-up from stored data *)

\* the page before its script runs: every field at the default its class
\* declares, no recognizer created, no listener installed
InitBoot ==
  /\ app = [isRecording |-> FALSE, isStreaming |-> FALSE,
            currentSource |-> NoSource, auth |-> NoAuth,
            postAuthAction |-> NoAction, startAfterSource |-> FALSE,
            timerInterval |-> FALSE]
  /\ recorder = [isRecording |-> FALSE, stream |-> NoSource,
                 mediaRecorder |-> NoMediaRecorder, recordedChunks |-> 0,
                 audioTracks |-> <<>>]
  /\ streamer = [isStreaming |-> FALSE, viewerCount |-> 0,
                 settings |-> [streamKey |-> ""]]
  /\ transcript = [isActive |-> FALSE, transcript |-> <<>>,
                   currentSegment |-> "", recognition |-> "unsupported"]
  /\ chat = [messages |-> <<>>, replies |-> 0, nextId |-> 0]
  /\ ai = [isEnabled |-> FALSE, recognition |-> "unsupported",
           commandHistory |-> <<>>, logged |-> 0,
           settings |-> [apiKey |-> "", sensitivity |-> DefaultSensitivity]]
  /\ dom = [startRecordingDisabled |-> FALSE, stopRecordingDisabled |-> TRUE,
            startStreamDisabled |-> TRUE, stopStreamDisabled |-> TRUE,
            sourcesModal |-> FALSE, authModal |-> FALSE,
            streamPlatform |-> "", aiCommands |-> FALSE,
            muteLabel |-> "Mute Audio", listeners |-> FALSE,
            strayIntervals |-> FALSE]
  /\ pending = [selects |-> 0, streamStarts |-> 0, streamStops |-> 0,
                streams |-> 0, aiRequests |-> <<>>, aiRestarts |-> 0,
                capture |-> NoCapture]
  /\ last = [op |-> "load", notices |-> <<>>, calls |-> <<>>]
  /\ hist = [lastRecorderOp |-> "none", deferredRuns |-> 0, dismissed |-> FALSE,
             held |-> NoAction, replaced |-> FALSE, autoRetries |-> 0,
             stopWhileConnecting |-> FALSE, exported |-> NoExport]

\* the script runs: new StreamStudio() over what localStorage holds, in a
\* browser with or without speech recognition
StreamStudioNew ==
  \E st \in Storages, speech \in BOOLEAN :
    /\ last.op = "load"
    /\ Commit(StreamStudio_new(World, st, speech), "new")
    /\ UNCHANGED pending

NextBoot ==
  \/ StreamStudioNew
  \/ ShowAuthModal
  \/ HandleAuthSignIn
  \/ Logout
  \/ ToggleAICommands

SpecBoot == InitBoot /\ [][NextBoot]_vars

\* the stored values a start-up step read that were not valid JSON
MalformedLoads(tr) ==
  {c \in Range(tr.calls) : c.arg = Malformed}

\* C28 (as claimed): a start-up that reads a malformed stored value shows no
\* error, leaves the subsystem's settings at their defaults and installs the
\* event listeners.
C28_MalformedStorageIgnored ==
  (last.op = "new" /\ MalformedLoads(last) # {}) =>
    /\ Errors(last) = {}
    /\ dom.listeners
    /\ (\E c \in MalformedLoads(last) : c.fn = "Streamer.loadSettings") =>
         streamer.settings.streamKey = ""
    /\ (\E c \in MalformedLoads(last) : c.fn = "AI.loadSettings") =>
         ai.settings.apiKey = ""
    /\ (\E c \in MalformedLoads(last) : c.fn = "loadAuth") =>
         app.auth = NoAuth

\* C29: Recorder.start called while a recording is in progress throws and
\* leaves the Recorder as it was, Recorder.stop called while none is in
\* progress does the same, and Recorder.isRecording changes only in a step
\* whose Recorder.start or Recorder.stop returned.
C29_GuardsLeaveRecorderUnchanged ==
  [][/\ (Called(last', "Recorder.start") /\ recorder.isRecording) =>
          (~OkCall(last', "Recorder.start") /\ recorder' = recorder)
     /\ (Called(last', "Recorder.stop") /\ ~recorder.isRecording) =>
          (~OkCall(last', "Recorder.stop") /\ recorder' = recorder)
     /\ (recorder'.isRecording # recorder.isRecording) =>
          (OkCall(last', "Recorder.start") \/ OkCall(last', "Recorder.stop"))]_vars

\* a start was refused because a recording was in progress
C29_Witness ==
  /\ FailedCall(last, "Recorder.start")
  /\ recorder.isRecording
  /\ recorder.mediaRecorder.state = "recording"

-----------------------------------------------------------------------------
(* Recordings and their files *)

\* startRecording with a source selected, and what it means for the events
\* still owed: a MediaRecorder that start() constructs replaces the one
\* before it
StartCapture ==
  \E origin \in Origins, mr \in MediaRecorderOutcomes :
    /\ MayIssue(origin, dom.startRecordingDisabled, ~app.isRecording)
    /\ app.currentSource # NoSource
    /\ Commit(startRecording(World, mr), "startRecording")
    /\ pending' =
         IF app.auth # NoAuth /\ ~recorder.isRecording /\ mr # "ctorThrows"
         THEN [pending EXCEPT
                 !.capture = [produced |-> 0,
                              stops |-> [i \in 1..Len(@.stops) |->
                                           [@.stops[i] EXCEPT !.who = "old"]]]]
         ELSE pending

\* stopRecording: a stop() of a MediaRecorder that was recording queues its
\* last events
StopCapture ==
  \E origin \in Origins, stopThrows \in BOOLEAN :
    /\ MayIssue(origin, dom.stopRecordingDisabled, app.isRecording)
    /\ Len(pending.capture.stops) < MaxInFlight
    /\ Commit(stopRecording(World, stopThrows), "stopRecording")
    /\ pending' =
         IF recorder.isRecording /\ recorder.mediaRecorder.state = "recording"
         THEN [pending EXCEPT
                 !.capture.stops =
                     Append(@, [who |-> "cur", produced |-> pending.capture.produced])]
         ELSE pending

\* a timeslice of the MediaRecorder that is recording has passed
MediaRecorderData ==
  /\ recorder.mediaRecorder.state = "recording"
  /\ pending.capture.produced < MaxChunks
  /\ Commit(Recorder_ondataavailable(World), "mediaRecorder.ondataavailable")
  /\ pending' = [pending EXCEPT !.capture.produced = @ + 1]

\* the task of the oldest stop() runs
MediaRecorderStop ==
  /\ pending.capture.stops # <<>>
  /\ Commit(Recorder_onstop(World), "mediaRecorder.onstop")
  /\ pending' = [pending EXCEPT !.capture.stops = Tail(@)]

NextCapture ==
  \/ ShowSourceModal
  \/ SelectSource
  \/ SelectSourceResolved
  \/ StartCapture
  \/ StopCapture
  \/ MediaRecorderData
  \/ MediaRecorderStop

SpecCapture == InitLogs /\ [][NextCapture]_vars

\* C30 (as claimed): when the events of a stop() are delivered, one file is
\* saved, it is made of the chunks of the recording that was stopped (the
\* chunks it delivered before, which are what the buffer holds, and its last
\* one) and of no chunk of another recording, and the buffer is empty
\* afterwards.
C30_OneFilePerRecording ==
  [][last'.op = "mediaRecorder.onstop" =>
       LET stopped == Head(pending.capture.stops) IN
         /\ CountCalls(last', "Recorder.saveRecording") = 1
         /\ OkCall(last', "Recorder.saveRecording")
         /\ recorder'.recordedChunks = 0
         /\ IF stopped.who = "cur"
            THEN recorder.recordedChunks = stopped.produced
            ELSE recorder.recordedChunks = 0 /\ stopped.produced = 0]_vars

-----------------------------------------------------------------------------
(* The Streamer on its own terms *)

\* the values the platform select can take: the page's markup is not part of
\* the sources, so besides the empty choice and a known platform it may
\* offer one that Streamer.platforms does not list
AnyPlatformChoices == {"", "youtube", "vimeo"}

PlatformChangeAny ==
  \E platform \in AnyPlatformChoices :
    /\ platform # dom.streamPlatform
    /\ Commit(handlePlatformChange(World, platform), "handlePlatformChange")
    /\ UNCHANGED pending

\* the 5 s interval set by Streamer.init fires
ViewerCountTick ==
  \E change \in ViewerChanges :
    /\ streamer.viewerCount + change <= MaxViewers
    /\ Commit(Streamer_viewerCountTick(World, change), "viewerCountTick")
    /\ UNCHANGED pending

NextStreamer ==
  \/ PlatformChangeAny
  \/ SaveSettings
  \/ ShowSourceModal
  \/ SelectSource
  \/ SelectSourceResolved
  \/ StartStreaming
  \/ StartStreamingResume
  \/ StopStreaming
  \/ StopStreamingResume
  \/ ViewerCountTick

SpecStreamer == InitStreaming /\ [][NextStreamer]_vars

\* C31: a Streamer.start call made while streaming, for a platform that is
\* not known, or with no stream key throws and leaves isStreaming and
\* viewerCount as they were; any other call goes on to connect, and when the
\* connection completes isStreaming is true.
C31_StreamerStartGuards ==
  [][/\ Called(last', "Streamer.start") =>
          IF \/ streamer.isStreaming
             \/ dom.streamPlatform \notin Platforms
             \/ streamer.settings.streamKey = ""
          THEN /\ ~OkCall(last', "Streamer.start")
               /\ streamer' = streamer
               /\ pending' = pending
          ELSE /\ ~FailedCall(last', "Streamer.start")
               /\ streamer' = streamer
               /\ pending'.streamStarts = pending.streamStarts + 1
     /\ last'.op = "startStreaming.resume" =>
          /\ streamer'.isStreaming
          /\ streamer'.viewerCount = streamer.viewerCount]_vars

\* a start was refused only for its missing stream key: the platform was
\* known and nothing was streaming
C31_Witness ==
  /\ FailedCall(last, "Streamer.start")
  /\ dom.streamPlatform \in Platforms
  /\ ~streamer.isStreaming
  /\ streamer.settings.streamKey = ""

\* C32: the viewer count is never negative and is 0 while nothing is
\* streamed; it changes only in a tick of the simulation during a stream, by
\* at most 5, or when a stop completes, and a completed stop leaves it at 0.
C32_ViewerCountFollowsStream ==
  /\ [](streamer.viewerCount >= 0)
  /\ [](~streamer.isStreaming => streamer.viewerCount = 0)
  /\ [][streamer'.viewerCount # streamer.viewerCount =>
          \/ /\ last'.op = "viewerCountTick"
             /\ streamer.isStreaming
             /\ streamer'.viewerCount - streamer.viewerCount \in ViewerChanges
          \/ last'.op = "stopStreaming.resume"]_vars
  /\ [][last'.op = "stopStreaming.resume" =>
          (~streamer'.isStreaming /\ streamer'.viewerCount = 0)]_vars

\* viewers are counted while a stop is on its way
C32_Witness ==
  /\ last.op = "viewerCountTick"
  /\ streamer.viewerCount > 0
  /\ pending.streamStops > 0

-----------------------------------------------------------------------------
(* Recognition results, one at a time *)

NextSegments ==
  \/ ShowSourceModal
  \/ SelectSource
  \/ SelectSourceResolved
  \/ StartRecording
  \/ StopRecording
  \/ TranscriptHeard
  \/ TranscriptRecognitionEnd

SpecSegments == InitLogs /\ [][NextSegments]_vars

\* the final text of the recognition event a step handled ("" for none)
FinalOf(tr) ==
  LET c == CHOOSE c \in Range(tr.calls) :
             c.fn = "Transcript.handleRecognitionResult"
  IN c.arg

\* the interim text of the recognition event a step handled ("" for none)
InterimOf(tr) ==
  IF Called(tr, "Transcript.updateDisplay")
  THEN LET c == CHOOSE c \in Range(tr.calls) : c.fn = "Transcript.updateDisplay"
       IN c.arg
  ELSE ""

\* C33 (as claimed): an event of interim results replaces the current
\* segment and leaves the committed segments alone; an event with a final
\* result appends exactly one segment and leaves the current segment empty.
C33_EveryFinalResultCommitted ==
  [][last'.op = "transcript.onresult" =>
       IF FinalOf(last') = ""
       THEN /\ transcript'.currentSegment = InterimOf(last')
            /\ transcript'.transcript = transcript.transcript
       ELSE /\ Len(transcript'.transcript) = Len(transcript.transcript) + 1
            /\ SubSeq(transcript'.transcript, 1, Len(transcript.transcript))
                 = transcript.transcript
            /\ transcript'.currentSegment = ""]_vars

\* C33 (amended): the same for a final text that is not blank, which is
\* committed trimmed; a blank final text is dropped, and the event is then
\* handled like one without a final result.
C33_FinalResultCommittedUnlessBlank ==
  [][last'.op = "transcript.onresult" =>
       IF Trim(FinalOf(last')) = ""
       THEN /\ transcript'.currentSegment =
                 IF InterimOf(last') # "" THEN InterimOf(last')
                 ELSE transcript.currentSegment
            /\ transcript'.transcript = transcript.transcript
       ELSE /\ transcript'.transcript =
                 Append(transcript.transcript, Trim(FinalOf(last')))
            /\ transcript'.currentSegment = ""]_vars

\* a final text was committed trimmed while an interim text was on display
C33_Witness ==
  /\ last.op = "transcript.onresult"
  /\ FinalOf(last) = " hello world "
  /\ InterimOf(last) = "hel"
  /\ transcript.transcript # <<>>
  /\ transcript.transcript[Len(transcript.transcript)] = "hello world"
  /\ transcript.currentSegment = ""

\* C34: Transcript.stop called while active commits a current segment that
\* is not blank as exactly one segment and empties it, adds no segment for a
\* blank one, and called while inactive changes nothing.
C34_StopCommitsRemainder ==
  [][Called(last', "Transcript.stop") =>
       IF ~transcript.isActive THEN transcript' = transcript
       ELSE /\ ~transcript'.isActive
            /\ IF Trim(transcript.currentSegment) # ""
               THEN /\ transcript'.transcript =
                         Append(transcript.transcript,
                                Trim(transcript.currentSegment))
                    /\ transcript'.currentSegment = ""
               ELSE transcript'.transcript = transcript.transcript]_vars

\* a stop has committed the interim text that was on display
C34_Witness ==
  /\ last.op = "stopRecording"
  /\ Called(last, "Transcript.stop")
  /\ transcript.transcript # <<>>
  /\ transcript.transcript[Len(transcript.transcript)] = "hel"
  /\ transcript.currentSegment = ""

----------------------------------------------------------------------------
(* Transcript exports *)

\* Transcript.exportTranscript(format) at some time not before the latest
\* export; the controller's export button asks for "txt"
TranscriptExport ==
  \E format \in ExportFormats \cup {"pdf"}, now \in 1..MaxClock :
    /\ now >= hist.exported.at
    /\ Commit(Transcript_exportTranscript(World, format, now),
              "Transcript.exportTranscript")
    /\ UNCHANGED pending

\* recognition results while exports are observed
TranscriptUttered ==
  TranscriptResultOf({"", "hel"}, {"", "hello world"}, {"running", "stopping"},
                     MaxExported)

NextExport ==
  \/ ShowSourceModal
  \/ SelectSource
  \/ SelectSourceResolved
  \/ StartRecording
  \/ StopRecording
  \/ TranscriptUttered
  \/ TranscriptRecognitionEnd
  \/ TranscriptExport

SpecExport == InitLogs /\ [][NextExport]_vars

\* C35: an export leaves the transcript as it is, and the file it produces
\* has the content of the latest file of the same format whenever that one
\* was made from the same committed segments, whatever the current segment
\* holds and whenever the two exports are made.
C35_ExportsDependOnSegmentsOnly ==
  [][Called(last', "Transcript.downloadFile") =>
       /\ transcript' = transcript
       /\ (/\ hist.exported.format = hist'.exported.format
           /\ hist.exported.from = transcript.transcript)
          => hist'.exported.content = hist.exported.content]_vars

----------------------------------------------------------------------------
(* The mute button *)

NextMute ==
  \/ ShowSourceModal
  \/ SelectSource
  \/ SelectSourceResolved
  \/ StartRecording
  \/ StopRecording
  \/ ToggleMute

SpecMute == InitLogs /\ [][NextMute]_vars

\* every audio track is disabled
AllMuted(audioTracks) == \A i \in 1..Len(audioTracks) : ~audioTracks[i]

\* C36: toggleMute with a current source flips the enabled flag of every
\* audio track, whether a recording is in progress or not, changes no
\* recording or streaming state, labels the mute button with the state the
\* tracks are then in, and a second toggleMute would give every track its
\* flag back; without a current source it changes nothing.
C36_ToggleMuteFlipsEveryTrack ==
  [][last'.op = "toggleMute" =>
       IF app.currentSource = NoSource
       THEN /\ recorder' = recorder
            /\ dom' = dom
            /\ app' = app
       ELSE /\ recorder'.audioTracks =
                 [i \in 1..Len(recorder.audioTracks) |-> ~recorder.audioTracks[i]]
            /\ recorder' = [recorder EXCEPT !.audioTracks = recorder'.audioTracks]
            /\ app' = app
            /\ streamer' = streamer
            /\ transcript' = transcript
            /\ pending' = pending
            /\ (dom'.muteLabel = "Unmute Audio") = AllMuted(recorder'.audioTracks)
            /\ (dom'.muteLabel = "Mute Audio") = ~AllMuted(recorder'.audioTracks)
            /\ toggleMute(toggleMute(World)).recorder.audioTracks
                 = recorder.audioTracks]_vars

\* the audio track of a source was disabled in the middle of a recording
C36_Witness ==
  /\ last.op = "toggleMute"
  /\ recorder.isRecording
  /\ app.currentSource # NoSource
  /\ recorder.audioTracks = <<FALSE>>
  /\ dom.muteLabel = "Unmute Audio"

----------------------------------------------------------------------------
(* The controller's flags and the subsystems' *)

\* C37 (as claimed): between handlers the controller's flags are those of
\* the subsystems: StreamStudio.isRecording is Recorder.isRecording and
\* StreamStudio.isStreaming is Streamer.isStreaming.
C37_FlagsAgree ==
  /\ app.isRecording = recorder.isRecording
  /\ app.isStreaming = streamer.isStreaming

\* a stream has been stopped that a stop issued too early had not prevented
\* from starting, while a recording goes on
C37_Witness ==
  /\ last.op = "stopStreaming.resume"
  /\ hist.stopWhileConnecting
  /\ ~app.isStreaming /\ ~streamer.isStreaming
  /\ app.isRecording /\ recorder.isRecording

----------------------------------------------------------------------------
(* The elapsed-time ticker *)

\* C38 (as claimed): at most one ticker interval runs at any time, none
\* runs while isRecording is false, and the start time the ticker counts
\* from is taken only in a step in which a recording starts.
C38_OneTickerWhileRecording ==
  /\ [](/\ ~(app.timerInterval /\ dom.strayIntervals)
        /\ ~app.isRecording => (~app.timerInterval /\ ~dom.strayIntervals))
  /\ [][Called(last', "startRecordingTimer") =>
          (~app.isRecording /\ app'.isRecording)]_vars

----------------------------------------------------------------------------
(* Results after the transcript was stopped *)

\* C39 (as claimed): while the transcript is not active, that is from the
\* return of Transcript.stop to the next Transcript.start, the committed
\* segments do not change: a result the recognizer still delivers adds none.
C39_NoSegmentAfterStop ==
  [][(~transcript.isActive /\ ~Called(last', "Transcript.start")) =>
       transcript'.transcript = transcript.transcript]_vars

----------------------------------------------------------------------------
(* The source being recorded *)

\* C40 (as claimed): while a recording is in progress, the stream the
\* MediaRecorder captures is the controller's currentSource and
\* Recorder.stream.
C40_RecordedSourceIsCurrent ==
  recorder.isRecording =>
    /\ recorder.mediaRecorder.stream = app.currentSource
    /\ recorder.mediaRecorder.stream = recorder.stream

====
